---- MODULE Spec2Model ----
(***************************************************************************)
(* Streaming log aggregation and benchmark harness                         *)
(* (src/etl/streaming_processor.py, class StreamingLogProcessor).          *)
(*                                                                         *)
(* A raw log line is a record of the text tokens it carries:               *)
(*   kind              "blank"     whitespace only                         *)
(*                     "malformed" json.loads raises JSONDecodeError       *)
(*                     "scalar"    valid JSON that is not an object        *)
(*                     "object"    a JSON object                           *)
(*   status_code, timestamp, endpoint, response_time_ms                    *)
(*                     the token of that key in the object: "<absent>"     *)
(*                     (no such key), "<null>" (JSON null), a number       *)
(*                     literal such as "500", or a string value.           *)
(* The keys 'method' and 'level' are copied by _clean_log_record and read  *)
(* by no aggregation; they are left out.                                   *)
(***************************************************************************)
EXTENDS Integers, Sequences, FiniteSets, TLC

\* ------------------------------------------------------------------ bounds
MaxLines == 3
MaxChunk == 2

\* ------------------------------------------------------- program constants
min_status_code == 500

ABSENT == "<absent>"
NULL == "<null>"
EPOCH_HOUR == "1970-01-01 00:00:00"
UNKNOWN == "unknown"

\* ------------------------------------------------------------ input tokens
\* int(): the number a JSON number literal denotes.
NumberLiterals == {"0", "100", "200", "300", "499", "500", "503"}

IsNumber(tok) == tok \in NumberLiterals

NumberOf(tok) ==
  CASE tok = "0" -> 0
    [] tok = "100" -> 100
    [] tok = "200" -> 200
    [] tok = "300" -> 300
    [] tok = "499" -> 499
    [] tok = "500" -> 500
    [] tok = "503" -> 503

\* datetime.fromisoformat(ts.replace('Z', '+00:00')) succeeds on these.
IsoTimestamps ==
  {"2025-01-01T10:15:00Z", "2025-01-01T10:45:00", "2025-01-01T11:05:00Z"}

\* dt.strftime('%Y-%m-%d %H:00:00'): truncation to the hour.
strftime_hour(ts) ==
  CASE ts = "2025-01-01T10:15:00Z" -> "2025-01-01 10:00:00"
    [] ts = "2025-01-01T10:45:00" -> "2025-01-01 10:00:00"
    [] ts = "2025-01-01T11:05:00Z" -> "2025-01-01 11:00:00"

BlankLine ==
  [kind |-> "blank", status_code |-> ABSENT, timestamp |-> ABSENT,
   endpoint |-> ABSENT, response_time_ms |-> ABSENT]

MalformedLine ==
  [kind |-> "malformed", status_code |-> ABSENT, timestamp |-> ABSENT,
   endpoint |-> ABSENT, response_time_ms |-> ABSENT]

ScalarLine ==
  [kind |-> "scalar", status_code |-> ABSENT, timestamp |-> ABSENT,
   endpoint |-> ABSENT, response_time_ms |-> ABSENT]

Obj(s, t, e, r) ==
  [kind |-> "object", status_code |-> s, timestamp |-> t,
   endpoint |-> e, response_time_ms |-> r]

\* The lines an input file is made of.
Lines ==
  { BlankLine, MalformedLine, ScalarLine,
    Obj("200", "2025-01-01T10:15:00Z", "/a", "100"),
    Obj("500", "2025-01-01T10:15:00Z", "/a", "100"),
    Obj("500", "2025-01-01T10:45:00", "/a", "300"),
    Obj("503", "2025-01-01T11:05:00Z", "/b", "200"),
    Obj("500", "not-a-date", "/a", "100"),
    Obj("500", ABSENT, ABSENT, ABSENT),
    Obj(ABSENT, "2025-01-01T10:15:00Z", "/a", "100"),
    Obj(NULL, "2025-01-01T10:15:00Z", "/a", "100"),
    Obj("500", "2025-01-01T10:15:00Z", NULL, "100"),
    Obj("500", "2025-01-01T10:15:00Z", "/a", "abc") }

SeqsUpTo(S, n) == UNION { [1..k -> S] : k \in 0..n }

Files == SeqsUpTo(Lines, MaxLines)

\* ---------------------------------------------------------------- helpers
RECURSIVE SumSeq(_)
SumSeq(s) == IF s = <<>> THEN 0 ELSE Head(s) + SumSeq(Tail(s))

RECURSIVE Gcd(_, _)
Gcd(a, b) == IF b = 0 THEN a ELSE Gcd(b, a % b)

\* A non-negative rational in lowest terms.
Frac(n, d) == LET g == Gcd(n, d) IN [num |-> n \div g, den |-> d \div g]

RECURSIVE SumFrac(_)
SumFrac(s) ==
  IF s = <<>> THEN [num |-> 0, den |-> 1]
  ELSE LET h == Head(s)
           t == SumFrac(Tail(s))
       IN Frac(h.num * t.den + t.num * h.den, h.den * t.den)

\* 'mean' of a column of integers, and of a column of rationals.
MeanInt(s) == Frac(SumSeq(s), Len(s))

MeanFrac(s) == LET t == SumFrac(s) IN Frac(t.num, t.den * Len(s))

\* The columns of a frame's rows.
ResponseTimes(rows) ==
  [i \in 1..Len(rows) |-> NumberOf(rows[i].response_time_ms)]

ErrorRates(rows) == [i \in 1..Len(rows) |-> rows[i].error_rate]

Counts(rows) == [i \in 1..Len(rows) |-> rows[i].count]

AvgResponseTimes(rows) == [i \in 1..Len(rows) |-> rows[i].avg_response_time]

\* ----------------------------------------------------- _clean_log_record
NONE == [none |-> TRUE]

\* record.get(key, default) on the parsed object.
Get(tok, default) == IF tok = ABSENT THEN default ELSE tok

\* Faulty variant: error_rate is 1.0 only above 500.
_clean_log_record_StrictError(record) ==
  LET timestamp_str == Get(record.timestamp, "")
  IN IF timestamp_str \notin {"", NULL} /\ timestamp_str \notin IsoTimestamps
       THEN NONE
     ELSE IF ~IsNumber(Get(record.status_code, "0"))
       THEN NONE
     ELSE
       LET hour == IF timestamp_str \notin {"", NULL}
                     THEN strftime_hour(timestamp_str)
                     ELSE EPOCH_HOUR
           status == NumberOf(Get(record.status_code, "0"))
       IN [none |-> FALSE,
           hour |-> hour,
           endpoint |-> Get(record.endpoint, UNKNOWN),
           status_code |-> status,
           response_time_ms |-> Get(record.response_time_ms, "0"),
           error_rate |-> IF status > 500 THEN 1 ELSE 0]

_clean_log_record(record) ==
  LET timestamp_str == Get(record.timestamp, "")
  IN IF timestamp_str \notin {"", NULL} /\ timestamp_str \notin IsoTimestamps
       THEN NONE  \* fromisoformat raises, caught: return None
     ELSE IF ~IsNumber(Get(record.status_code, "0"))
       THEN NONE  \* cleaned['status_code'] >= 500 raises TypeError, caught
     ELSE
       LET hour == IF timestamp_str \notin {"", NULL}
                     THEN strftime_hour(timestamp_str)
                     ELSE EPOCH_HOUR
           status == NumberOf(Get(record.status_code, "0"))
       IN [none |-> FALSE,
           hour |-> hour,
           endpoint |-> Get(record.endpoint, UNKNOWN),
           status_code |-> status,
           response_time_ms |-> Get(record.response_time_ms, "0"),
           error_rate |-> IF status >= 500 THEN 1 ELSE 0]

\* ------------------------------------------------------------- DataFrames
\* A frame is a sequence of rows and whether it has the aggregate's columns
\* (pd.DataFrame() has none).
EmptyFrame == [columns |-> FALSE, rows |-> <<>>]

\* The sort order of groupby's keys (sort=True): strings in ascending order.
HourOrder == <<EPOCH_HOUR, "2025-01-01 10:00:00", "2025-01-01 11:00:00">>

EndpointOrder == <<"/a", "/b", UNKNOWN>>

SortedKeys ==
  [k \in 1..(Len(HourOrder) * Len(EndpointOrder)) |->
     [hour |-> HourOrder[((k - 1) \div Len(EndpointOrder)) + 1],
      endpoint |-> EndpointOrder[((k - 1) % Len(EndpointOrder)) + 1]]]

KeyOf(row) == [hour |-> row.hour, endpoint |-> row.endpoint]

\* The rows of one group, in their order in the frame.  A row whose key is
\* null belongs to no group (groupby's dropna=True).
Group(rows, key) == SelectSeq(rows, LAMBDA r : KeyOf(r) = key)

GroupKeys(rows) ==
  SelectSeq(SortedKeys, LAMBDA key : Group(rows, key) # <<>>)

\* ------------------------------------------- _aggregate_by_hour_endpoint
AggRow(rows, key) ==
  LET g == Group(rows, key)
  IN [hour |-> key.hour,
      endpoint |-> key.endpoint,
      count |-> Len(g),
      avg_response_time |-> MeanInt(ResponseTimes(g)),
      error_rate |-> MeanInt(ErrorRates(g))]

_aggregate_by_hour_endpoint(df) ==
  IF Len(df) = 0 THEN EmptyFrame
  ELSE IF \E i \in 1..Len(df) : ~IsNumber(df[i].response_time_ms)
    THEN EmptyFrame  \* 'mean' of a non-numeric column raises, caught
  ELSE LET keys == GroupKeys(df)
       IN [columns |-> TRUE,
           rows |-> [i \in 1..Len(keys) |-> AggRow(df, keys[i])]]

\* ------------------------------------------------ consolidation (merge)
RECURSIVE ConcatRows(_)
ConcatRows(frames) ==
  IF frames = <<>> THEN <<>>
  ELSE Head(frames).rows \o ConcatRows(Tail(frames))

\* pd.concat(frames, ignore_index=True)
concat(frames) ==
  [columns |-> \E i \in 1..Len(frames) : frames[i].columns,
   rows |-> ConcatRows(frames)]

\* Faulty variant: 'count' is aggregated with 'first' instead of 'sum'.
MergeRow_FirstCount(rows, key) ==
  LET g == Group(rows, key)
  IN [hour |-> key.hour,
      endpoint |-> key.endpoint,
      count |-> Head(g).count,
      avg_response_time |-> MeanFrac(AvgResponseTimes(g)),
      error_rate |-> MeanFrac(ErrorRates(g))]

\* Faulty variant: 'count' is aggregated with 'count' instead of 'sum'.
MergeRow_CountOfRows(rows, key) ==
  LET g == Group(rows, key)
  IN [hour |-> key.hour,
      endpoint |-> key.endpoint,
      count |-> Len(g),
      avg_response_time |-> MeanFrac(AvgResponseTimes(g)),
      error_rate |-> MeanFrac(ErrorRates(g))]

\* Faulty variant: the means are weighted by the partial counts.
WeightedMean(g, means) ==
  LET total ==
        SumFrac([i \in 1..Len(g) |->
                   Frac(g[i].count * means[i].num, means[i].den)])
  IN Frac(total.num, total.den * SumSeq(Counts(g)))

MergeRow_Weighted(rows, key) ==
  LET g == Group(rows, key)
  IN [hour |-> key.hour,
      endpoint |-> key.endpoint,
      count |-> SumSeq(Counts(g)),
      avg_response_time |-> WeightedMean(g, AvgResponseTimes(g)),
      error_rate |-> WeightedMean(g, ErrorRates(g))]

MergeRow(rows, key) ==
  LET g == Group(rows, key)
  IN [hour |-> key.hour,
      endpoint |-> key.endpoint,
      count |-> SumSeq(Counts(g)),
      avg_response_time |-> MeanFrac(AvgResponseTimes(g)),
      error_rate |-> MeanFrac(ErrorRates(g))]

\* groupby(['hour','endpoint']).agg(count sum, means mean).reset_index();
\* exc is the exception raised ("" for none).
GroupBySum(df) ==
  IF ~df.columns THEN [exc |-> "KeyError", frame |-> EmptyFrame]
  ELSE LET keys == GroupKeys(df.rows)
       IN [exc |-> "",
           frame |-> [columns |-> TRUE,
                      rows |-> [i \in 1..Len(keys) |->
                                  MergeRow(df.rows, keys[i])]]]

Consolidate(frames) ==
  IF frames # <<>> THEN GroupBySum(concat(frames))
  ELSE [exc |-> "", frame |-> EmptyFrame]

\* ------------------------------------------------------------ input files
\* The scenario file of the specification, in every order of its lines:
\* one blank, one malformed, one status 200, two status 500 of one key.
ScenarioLines ==
  << BlankLine, MalformedLine,
     Obj("200", "2025-01-01T10:15:00Z", "/a", "100"),
     Obj("500", "2025-01-01T10:15:00Z", "/a", "100"),
     Obj("500", "2025-01-01T10:45:00", "/a", "300") >>

ScenarioFiles ==
  { [i \in 1..Len(ScenarioLines) |-> ScenarioLines[p[i]]] :
      p \in { q \in [1..Len(ScenarioLines) -> 1..Len(ScenarioLines)] :
                \A i, j \in 1..Len(ScenarioLines) : q[i] = q[j] => i = j } }

InputFiles == Files \cup ScenarioFiles

VARIABLES
  file,              \* the lines of self.input_file
  chunk_size,        \* self.chunk_size
  pc,                \* where process_with_pandas_streaming is
  line_num,          \* lines consumed from the stream
  batch,             \* cleaned records not yet aggregated
  records,           \* the partial aggregates
  total_records,
  filtered_records,
  error_records,
  final_df,
  stats,             \* the RunStats returned
  exc,               \* the exception that left the method ("" for none)
  HAS_PYARROW,
  elapsed,           \* end_time - start_time as measured, in seconds
  artifact,          \* the file the export wrote
  clean_in,          \* the argument of a call of _clean_log_record
  clean_out,         \* what the call returned
  shard_size,        \* the partitioner's chunk_size (lines per shard)
  chunks,            \* the shard files, in list order: the lines of each
  num_workers,       \* the size of the pool
  results,           \* pool.map's result list, one entry per shard
  processed_dfs,     \* the partial aggregates the parent merges
  split_exc,         \* the exception the partitioner caught ("" for none)
  input_exists,      \* self.input_file.exists()
  HAS_POLARS,
  HAS_DASK,
  bench_pc,          \* where run_all_benchmarks is
  bench_results,     \* its results dictionary
  calls,             \* how many times each strategy was invoked
  raised_msg,        \* the message of the exception each strategy raised
  bench_exc,         \* the exception that left run_all_benchmarks
  opened,            \* the strategies that opened the input file
  report,            \* benchmark_report.md
  main_pc,           \* where main() is ("none": it is not the caller)
  main_result,       \* what main() returned
  input_path_exists, \* file_path.exists() for the ETL input
  input_table,       \* what reading the ETL input gives
  etl_pc,            \* where process_file is
  df_raw,
  df_clean,
  stages,            \* the stages process_file has entered, in order
  load_result,
  etl_result,        \* what process_file returned
  schema_created,    \* the warehouse database has its tables and indexes
  dim_user,
  dim_time,
  dim_status,
  fact_transactions,
  sqlite_sequence,   \* the AUTOINCREMENT counter of each table
  loaded_rows,       \* the rows of every successful load_transactions call
  warehouse_result,  \* what the last DataWarehouse call returned
  fan_strategy,      \* the strategy run_all_benchmarks is executing
  fan_pc,            \* where that strategy is
  shard_count,       \* how many shards the input file splits into
  chunk_num,         \* the partitioner's chunk_num: shards written so far
  writer,            \* the shard file open for writing (0 for none)
  listed,            \* len(chunks): the shard paths the partitioner returned
  tasks,             \* per fan-out strategy, the state of each shard's task
  task_worker,       \* per fan-out strategy, the worker running each task (0: none)
  opens,             \* per fan-out strategy, how often each shard was opened
  consumed           \* per fan-out strategy, the results the parent consumed

cleanVars == << clean_in, clean_out >>

mpVars ==
  << shard_size, chunks, num_workers, results, processed_dfs, split_exc >>

benchVars ==
  << input_exists, HAS_POLARS, HAS_DASK, bench_pc, bench_results, calls,
     raised_msg, bench_exc, opened, report, main_pc, main_result >>

etlVars ==
  << input_path_exists, input_table, etl_pc, df_raw, df_clean, stages,
     load_result, etl_result >>

warehouseVars ==
  << schema_created, dim_user, dim_time, dim_status, fact_transactions,
     sqlite_sequence, loaded_rows, warehouse_result >>

poolVars ==
  << fan_strategy, fan_pc, shard_count, chunk_num, writer, listed, tasks,
     task_worker, opens, consumed >>

exportVars == << HAS_PYARROW, elapsed, artifact >>

pandasVars ==
  << file, chunk_size, pc, line_num, batch, records, total_records,
     filtered_records, error_records, final_df, stats, exc, exportVars >>

vars ==
  << pandasVars, cleanVars, mpVars, benchVars, etlVars, warehouseVars,
     poolVars >>

\* What the steps of process_with_pandas_streaming leave alone.
notPandas ==
  << cleanVars, mpVars, benchVars, etlVars, warehouseVars, poolVars >>

\* ------------------------------------- process_with_pandas_streaming
\* Faulty variant: the batch is aggregated only once it holds more than
\* chunk_size records.
FilterAndBatch_FlushLate(st, line, cs) ==
  LET counted == [st EXCEPT !.total_records = @ + 1]
  IN IF line.kind = "scalar"
       THEN [counted EXCEPT !.exc = "AttributeError"]
     ELSE IF ~IsNumber(Get(line.status_code, "0"))
       THEN [counted EXCEPT !.exc = "TypeError"]
     ELSE
       LET passes ==
             NumberOf(Get(line.status_code, "0")) >= min_status_code
           cleaned_record == _clean_log_record(line)
           filtered ==
             IF passes
               THEN [counted EXCEPT
                       !.filtered_records = @ + 1,
                       !.batch = IF cleaned_record.none THEN @
                                 ELSE Append(@, cleaned_record)]
               ELSE counted
       IN IF Len(filtered.batch) > cs
            THEN [filtered EXCEPT
                    !.records =
                      Append(@, _aggregate_by_hour_endpoint(filtered.batch)),
                    !.batch = <<>>]
            ELSE filtered

\* The try body after json.loads succeeded (lines 84-100).  st holds the
\* method's locals; exc is the exception that leaves the try ("" for none).
FilterAndBatch(st, line, cs) ==
  LET counted == [st EXCEPT !.total_records = @ + 1]
  IN IF line.kind = "scalar"
       THEN [counted EXCEPT !.exc = "AttributeError"]  \* record.get
     ELSE IF ~IsNumber(Get(line.status_code, "0"))
       THEN [counted EXCEPT !.exc = "TypeError"]       \* >= on a non-number
     ELSE
       LET passes ==
             NumberOf(Get(line.status_code, "0")) >= min_status_code
           cleaned_record == _clean_log_record(line)
           filtered ==
             IF passes
               THEN [counted EXCEPT
                       !.filtered_records = @ + 1,
                       !.batch = IF cleaned_record.none THEN @
                                 ELSE Append(@, cleaned_record)]
               ELSE counted
       IN IF Len(filtered.batch) >= cs
            THEN [filtered EXCEPT
                    !.records =
                      Append(@, _aggregate_by_hour_endpoint(filtered.batch)),
                    !.batch = <<>>]
            ELSE filtered

\* Faulty variant: a blank line is counted as a parse error.
PandasLine_BlankIsError(st, line, cs) ==
  IF line.kind \in {"blank", "malformed"}
    THEN [st EXCEPT !.error_records = @ + 1]
    ELSE FilterAndBatch(st, line, cs)

\* Faulty variant: total_records is incremented before json.loads.
PandasLine_TotalBeforeParse(st, line, cs) ==
  IF line.kind = "blank" THEN st
  ELSE IF line.kind = "malformed"
    THEN [st EXCEPT !.error_records = @ + 1, !.total_records = @ + 1]
  ELSE FilterAndBatch(st, line, cs)

\* The body of the loop for one line (lines 78-108).
PandasLine(st, line, cs) ==
  IF line.kind = "blank" THEN st
  ELSE IF line.kind = "malformed"
    THEN [st EXCEPT !.error_records = @ + 1]
  ELSE FilterAndBatch(st, line, cs)

\* Faulty variant: the records left in the batch at end-of-stream are not
\* aggregated.
LastBatch_Skipped(st) == st

\* "Procesar ultimo batch"
LastBatch(st) ==
  IF st.batch # <<>>
    THEN [st EXCEPT !.records = Append(@, _aggregate_by_hour_endpoint(st.batch))]
    ELSE st

Locals ==
  [total_records |-> total_records, filtered_records |-> filtered_records,
   error_records |-> error_records, batch |-> batch, records |-> records,
   exc |-> exc]

SetLocals(st) ==
  /\ total_records' = st.total_records
  /\ filtered_records' = st.filtered_records
  /\ error_records' = st.error_records
  /\ batch' = st.batch
  /\ records' = st.records
  /\ exc' = st.exc

NoStats == [method |-> "none"]

\* ------------------------------------------------- export and RunStats
MaxElapsed == 1

\* The columns of a frame: those of the merged aggregate, or none at all
\* for pd.DataFrame().
AggregateColumns ==
  {"hour", "endpoint", "count", "avg_response_time", "error_rate"}

ColumnsOf(frame) == IF frame.columns THEN AggregateColumns ELSE {}

NoArtifact == [kind |-> "none", compression |-> "none", columns |-> {},
               num_rows |-> 0]

\* Faulty variant: without pyarrow nothing is written.
ExportFile_NoFallback(has_pyarrow, frame) ==
  IF has_pyarrow /\ Len(frame.rows) > 0
    THEN [kind |-> "parquet", compression |-> "snappy",
          columns |-> ColumnsOf(frame), num_rows |-> Len(frame.rows)]
  ELSE NoArtifact

\* if HAS_PYARROW and len(final_df) > 0: to_parquet(compression='snappy')
\* elif len(final_df) > 0: to_csv(..., index=False)
ExportFile(has_pyarrow, frame) ==
  IF has_pyarrow /\ Len(frame.rows) > 0
    THEN [kind |-> "parquet", compression |-> "snappy",
          columns |-> ColumnsOf(frame), num_rows |-> Len(frame.rows)]
  ELSE IF Len(frame.rows) > 0
    THEN [kind |-> "csv", compression |-> "none",
          columns |-> ColumnsOf(frame), num_rows |-> Len(frame.rows)]
  ELSE NoArtifact

\* round(n / d) for n >= 0 and d > 0: to the nearest integer, a half to
\* the even neighbour.
round(n, d) ==
  LET q == n \div d
      r == n % d
  IN IF 2 * r < d THEN q
     ELSE IF 2 * r > d THEN q + 1
     ELSE IF q % 2 = 0 THEN q ELSE q + 1

\* The stats dictionary (lines 137-148).
StatsOf(method, total, filtered, processed, errors, seconds, has_pyarrow) ==
  [method |-> method,
   total_records |-> total,
   filtered_records |-> filtered,
   processed_records |-> processed,
   error_records |-> errors,
   processing_time_seconds |-> seconds,
   records_per_second |-> round(total, seconds),
   compression |-> IF has_pyarrow THEN "snappy" ELSE "none"]

ExportIdle == HAS_PYARROW = TRUE /\ elapsed = 0 /\ artifact = NoArtifact

NoRecord == [kind |-> "none"]

CleanIdle == clean_in = NoRecord /\ clean_out = NONE

Strategies == {"pandas_streaming", "multiprocessing", "polars", "dask"}

NoReport == [written |-> FALSE]

BenchIdle ==
  /\ input_exists = TRUE
  /\ HAS_POLARS = FALSE
  /\ HAS_DASK = FALSE
  /\ bench_pc = "start"
  /\ bench_results = << >>
  /\ calls = [s \in Strategies |-> 0]
  /\ raised_msg = [s \in Strategies |-> ""]
  /\ bench_exc = ""
  /\ opened = {}
  /\ report = NoReport
  /\ main_pc = "none"
  /\ main_result = "none"

NoResult == [status |-> "none"]

ETLIdle ==
  /\ input_path_exists = TRUE
  /\ input_table = [amount_is_text |-> FALSE, rows |-> <<>>]
  /\ etl_pc = "idle"
  /\ df_raw = [amount_is_text |-> FALSE, rows |-> <<>>]
  /\ df_clean = [amount_is_text |-> FALSE, rows |-> <<>>]
  /\ stages = <<>>
  /\ load_result = NoResult
  /\ etl_result = NoResult

\* sqlite_sequence has no row for a table nothing was inserted into.
NoSequence ==
  [dim_user |-> 0, dim_time |-> 0, dim_status |-> 0, fact_transactions |-> 0]

WarehouseIdle ==
  /\ schema_created = FALSE
  /\ dim_user = {}
  /\ dim_time = {}
  /\ dim_status = {}
  /\ fact_transactions = <<>>
  /\ sqlite_sequence = NoSequence
  /\ loaded_rows = <<>>
  /\ warehouse_result = NoResult

FanOut == {"multiprocessing", "dask"}

NoTasks == [s \in FanOut |-> <<>>]

PoolIdle ==
  /\ fan_strategy = "none"
  /\ fan_pc = "none"
  /\ shard_count = 0
  /\ chunk_num = 0
  /\ writer = 0
  /\ listed = 0
  /\ tasks = NoTasks
  /\ task_worker = NoTasks
  /\ opens = NoTasks
  /\ consumed = NoTasks

MPIdle ==
  /\ shard_size = 1
  /\ chunks = <<>>
  /\ num_workers = 0
  /\ results = <<>>
  /\ processed_dfs = <<>>
  /\ split_exc = ""

Init ==
  /\ file \in InputFiles
  /\ chunk_size \in 1..MaxChunk
  /\ pc = "idle"
  /\ line_num = 0
  /\ batch = <<>>
  /\ records = <<>>
  /\ total_records = 0
  /\ filtered_records = 0
  /\ error_records = 0
  /\ final_df = EmptyFrame
  /\ stats = NoStats
  /\ exc = ""
  /\ HAS_PYARROW \in BOOLEAN
  /\ elapsed = 0
  /\ artifact = NoArtifact
  /\ CleanIdle
  /\ MPIdle
  /\ BenchIdle
  /\ ETLIdle
  /\ WarehouseIdle
  /\ PoolIdle

\* gzip.open(self.input_file, 'rt')
Open ==
  /\ pc = "idle"
  /\ pc' = "reading"
  /\ UNCHANGED << file, chunk_size, line_num, batch, records, total_records,
                  filtered_records, error_records, final_df, stats, exc >>
  /\ UNCHANGED exportVars
  /\ UNCHANGED notPandas

\* One iteration of "for line_num, line in enumerate(f, 1)".
ReadLine ==
  /\ pc = "reading"
  /\ line_num < Len(file)
  /\ LET st == PandasLine(Locals, file[line_num + 1], chunk_size)
     IN /\ SetLocals(st)
        /\ pc' = IF st.exc # "" THEN "failed" ELSE "reading"
  /\ line_num' = line_num + 1
  /\ UNCHANGED << file, chunk_size, final_df, stats >>
  /\ UNCHANGED exportVars
  /\ UNCHANGED notPandas

\* End of the stream: the last batch is aggregated.
EndOfStream ==
  /\ pc = "reading"
  /\ line_num = Len(file)
  /\ SetLocals(LastBatch(Locals))
  /\ pc' = "merging"
  /\ UNCHANGED << file, chunk_size, line_num, final_df, stats >>
  /\ UNCHANGED exportVars
  /\ UNCHANGED notPandas

\* "Consolidar resultados"
Merge ==
  /\ pc = "merging"
  /\ LET r == Consolidate(records)
     IN /\ final_df' = r.frame
        /\ exc' = r.exc
        /\ pc' = IF r.exc # "" THEN "failed" ELSE "exporting"
  /\ UNCHANGED << file, chunk_size, line_num, batch, records, total_records,
                  filtered_records, error_records, stats >>
  /\ UNCHANGED exportVars
  /\ UNCHANGED notPandas

\* "Exportar a Parquet" and the stats dictionary (lines 127-151).  The
\* write of a non-empty aggregate may raise; the two clock readings may be
\* equal.  Whatever is raised leaves the method (lines 153-155).
Export ==
  /\ pc = "exporting"
  /\ \E write_fails \in BOOLEAN, measured \in 0..MaxElapsed :
       LET written == ExportFile(HAS_PYARROW, final_df)
       IN IF write_fails /\ written.kind # "none"
            THEN /\ pc' = "failed"
                 /\ exc' = "OSError"
                 /\ UNCHANGED << artifact, elapsed, stats >>
            ELSE /\ artifact' = written
                 /\ elapsed' = measured
                 /\ IF measured = 0
                      THEN /\ pc' = "failed"
                           /\ exc' = "ZeroDivisionError"
                           /\ UNCHANGED stats
                      ELSE /\ pc' = "done"
                           /\ exc' = exc
                           /\ stats' =
                                StatsOf("pandas_streaming", total_records,
                                        filtered_records, Len(final_df.rows),
                                        error_records, measured, HAS_PYARROW)
  /\ UNCHANGED << file, chunk_size, line_num, batch, records, total_records,
                  filtered_records, error_records, final_df, HAS_PYARROW >>
  /\ UNCHANGED notPandas

Next == Open \/ ReadLine \/ EndOfStream \/ Merge \/ Export

Spec == Init /\ [][Next]_vars

\* ====================================================================
\* Properties of process_with_pandas_streaming (specification Spec)
\* ====================================================================
IsBlank(l) == l.kind = "blank"

IsMalformed(l) == l.kind = "malformed"

ParsesAsJson(l) == l.kind \in {"scalar", "object"}

HasStatusAtLeast500(l) ==
  /\ l.kind = "object"
  /\ l.status_code \in NumberLiterals
  /\ NumberOf(l.status_code) >= 500

NumBlank(f) == Cardinality({ i \in 1..Len(f) : IsBlank(f[i]) })

NumMalformed(f) == Cardinality({ i \in 1..Len(f) : IsMalformed(f[i]) })

NumParsed(f) == Cardinality({ i \in 1..Len(f) : ParsesAsJson(f[i]) })

NumStatusAtLeast500(f) ==
  Cardinality({ i \in 1..Len(f) : HasStatusAtLeast500(f[i]) })

Finished == pc = "done"

\* C1: when process_with_pandas_streaming finishes, blank lines are counted
\* nowhere, error_records is the number of non-blank lines that fail JSON
\* parsing, total_records the number of non-blank lines that parse, and
\* filtered_records the number of parsed lines with status_code >= 500; the
\* scenario file (one blank, one malformed, one 200, two 500 of one key)
\* gives 3 / 1 / 2 and a final aggregate of one row with count 2.
C1_StreamingCounts ==
  Finished =>
    /\ stats.error_records = NumMalformed(file)
    /\ stats.total_records = NumParsed(file)
    /\ stats.filtered_records = NumStatusAtLeast500(file)
    /\ stats.total_records + stats.error_records
         = Len(file) - NumBlank(file)
    /\ file \in ScenarioFiles =>
         /\ stats.total_records = 3
         /\ stats.error_records = 1
         /\ stats.filtered_records = 2
         /\ Len(final_df.rows) = 1
         /\ final_df.rows[1].count = 2

C1_Witness == Finished /\ file \in ScenarioFiles

LineErrors == {"AttributeError", "TypeError"}

C3_NoLineIsFatal == ~(pc = "failed" /\ exc \in LineErrors)

SumCounts(frame) == SumSeq(Counts(frame.rows))

\* C4: filter correctness: a parsed record is counted in a row of the final
\* aggregate if and only if its status_code >= 500, i.e. the counts of the
\* final rows add up to filtered_records.
C4_FilteredAreAggregated ==
  Finished => SumCounts(final_df) = stats.filtered_records

\* ====================================================================
\* _clean_log_record as a function (specification SpecClean)
\* ====================================================================
StatusTokens == {ABSENT, NULL, "200", "499", "500", "503"}

TimestampTokens == {ABSENT, NULL, "", "not-a-date"} \cup IsoTimestamps

EndpointTokens == {ABSENT, NULL, "/a", "/b"}

ResponseTokens == {ABSENT, "100", "abc"}

CleanInputs ==
  { Obj(s, t, e, r) : s \in StatusTokens, t \in TimestampTokens,
                      e \in EndpointTokens, r \in ResponseTokens }

InitClean ==
  /\ file = <<>>
  /\ chunk_size = 1
  /\ pc = "idle"
  /\ line_num = 0
  /\ batch = <<>>
  /\ records = <<>>
  /\ total_records = 0
  /\ filtered_records = 0
  /\ error_records = 0
  /\ final_df = EmptyFrame
  /\ stats = NoStats
  /\ exc = ""
  /\ ExportIdle
  /\ CleanIdle
  /\ MPIdle
  /\ BenchIdle
  /\ ETLIdle
  /\ WarehouseIdle
  /\ PoolIdle

CallClean ==
  /\ \E record \in CleanInputs :
       /\ clean_in' = record
       /\ clean_out' = _clean_log_record(record)
  /\ UNCHANGED << pandasVars, mpVars, benchVars, etlVars, warehouseVars, poolVars >>

NextClean == CallClean

SpecClean == InitClean /\ [][NextClean]_vars

TimestampMissing(record) == record.timestamp \in {ABSENT, NULL, ""}

TimestampUnparseable(record) ==
  ~TimestampMissing(record) /\ record.timestamp \notin IsoTimestamps

\* C5: _clean_log_record always yields a normalized record with a valid hour
\* bucket: a missing endpoint becomes "unknown", a missing or unparseable
\* timestamp becomes the epoch hour, a missing status_code becomes 0 (below
\* the threshold); cleaning drops no record.
C5_CleanAlwaysNormalizes ==
  clean_in # NoRecord =>
    /\ ~clean_out.none
    /\ clean_out.hour \in { HourOrder[i] : i \in 1..Len(HourOrder) }
    /\ clean_in.endpoint = ABSENT => clean_out.endpoint = UNKNOWN
    /\ (TimestampMissing(clean_in) \/ TimestampUnparseable(clean_in))
         => clean_out.hour = EPOCH_HOUR
    /\ clean_in.status_code = ABSENT =>
         clean_out.status_code = 0 /\ clean_out.status_code < min_status_code

\* ====================================================================
\* Batching and merging (specification Spec)
\* ====================================================================
\* The cleaned records of a file, in order: what reaches the batches.
RECURSIVE CleanedOf(_)
CleanedOf(f) ==
  IF f = <<>> THEN <<>>
  ELSE (IF HasStatusAtLeast500(Head(f)) /\ ~_clean_log_record(Head(f)).none
          THEN << _clean_log_record(Head(f)) >>
          ELSE <<>>) \o CleanedOf(Tail(f))

\* A NormalizedRecord has a numeric response_time_ms.
AllNormalized(recs) ==
  \A i \in 1..Len(recs) : IsNumber(recs[i].response_time_ms)

Keys == { SortedKeys[i] : i \in 1..Len(SortedKeys) }

\* The count a frame gives a key (0 when it has no row for it).
CountOf(frame, key) ==
  SumSeq(Counts(Group(frame.rows, key)))

Merged == pc \in {"exporting", "done"}

\* The consecutive segments of recs cut after the positions in cuts.
RECURSIVE Segments(_, _, _, _)
Segments(recs, cuts, i, current) ==
  IF i > Len(recs)
    THEN IF current = <<>> THEN <<>> ELSE << current >>
  ELSE IF i \in cuts
    THEN << Append(current, recs[i]) >> \o Segments(recs, cuts, i + 1, <<>>)
  ELSE Segments(recs, cuts, i + 1, Append(current, recs[i]))

AggregateEach(parts) ==
  [i \in 1..Len(parts) |-> _aggregate_by_hour_endpoint(parts[i])]

\* C6: batch-split independence of counts: for the same normalized records
\* the final count of every (hour, endpoint) key is what aggregating them all
\* at once gives, whatever the batch size, and equals the sum of the key's
\* counts over the partial aggregates; the same holds for every way of
\* cutting the records into consecutive batches or shards and merging.
C6_BatchSplitIndependent ==
  (Merged /\ AllNormalized(CleanedOf(file))) =>
    LET recs == CleanedOf(file)
        at_once == _aggregate_by_hour_endpoint(recs)
    IN /\ \A key \in Keys :
            /\ CountOf(final_df, key) = CountOf(at_once, key)
            /\ CountOf(final_df, key)
                 = SumSeq([i \in 1..Len(records) |-> CountOf(records[i], key)])
       /\ \A cuts \in SUBSET (1..(Len(recs) - 1)) :
            LET merged == Consolidate(AggregateEach(Segments(recs, cuts, 1, <<>>)))
            IN \A key \in Keys :
                 CountOf(merged.frame, key) = CountOf(at_once, key)

C6_Witness ==
  /\ Merged
  /\ AllNormalized(CleanedOf(file))
  /\ Len(records) >= 2
  /\ \E key \in Keys :
       /\ CountOf(records[1], key) >= 1
       /\ CountOf(records[2], key) >= 1
       /\ CountOf(final_df, key) >= 2

\* ====================================================================
\* process_with_multiprocessing (specification SpecMP)
\* ====================================================================
MaxShard == 2

CpuCount == 2

\* --------------------------------- _split_log_file_for_multiprocessing
\* The loop over the lines: current_chunk is written out as the next shard
\* when it holds K lines, and what is left is written at the end.
RECURSIVE SplitLoop(_, _, _, _)
SplitLoop(lines, K, done, current_chunk) ==
  IF lines = <<>>
    THEN IF current_chunk # <<>> THEN Append(done, current_chunk) ELSE done
  ELSE LET grown == Append(current_chunk, Head(lines))
       IN IF Len(grown) >= K
            THEN SplitLoop(Tail(lines), K, Append(done, grown), <<>>)
            ELSE SplitLoop(Tail(lines), K, done, grown)

\* Faulty variant: a shard is written out only once it holds more than K lines.
RECURSIVE SplitLoop_OffByOne(_, _, _, _)
SplitLoop_OffByOne(lines, K, done, current_chunk) ==
  IF lines = <<>>
    THEN IF current_chunk # <<>> THEN Append(done, current_chunk) ELSE done
  ELSE LET grown == Append(current_chunk, Head(lines))
       IN IF Len(grown) > K
            THEN SplitLoop_OffByOne(Tail(lines), K, Append(done, grown), <<>>)
            ELSE SplitLoop_OffByOne(Tail(lines), K, done, grown)

_split_log_file_for_multiprocessing_OffByOne(lines, K) ==
  SplitLoop_OffByOne(lines, K, <<>>, <<>>)

_split_log_file_for_multiprocessing(lines, K) == SplitLoop(lines, K, <<>>, <<>>)

\* ------------------------------------- _process_chunk_multiprocessing
WorkerLocals ==
  [total_records |-> 0, filtered_records |-> 0, error_records |-> 0,
   records |-> <<>>, exc |-> ""]

\* The body of the worker's loop for one line (lines 493-508).
WorkerLine(st, line) ==
  IF line.kind = "blank" THEN st
  ELSE IF line.kind = "malformed"
    THEN [st EXCEPT !.error_records = @ + 1]
  ELSE LET counted == [st EXCEPT !.total_records = @ + 1]
       IN IF line.kind = "scalar"
            THEN [counted EXCEPT !.exc = "AttributeError"]
          ELSE IF ~IsNumber(Get(line.status_code, "0"))
            THEN [counted EXCEPT !.exc = "TypeError"]
          ELSE IF NumberOf(Get(line.status_code, "0")) >= min_status_code
            THEN [counted EXCEPT
                    !.filtered_records = @ + 1,
                    !.records = IF _clean_log_record(line).none THEN @
                                ELSE Append(@, _clean_log_record(line))]
          ELSE counted

RECURSIVE WorkerLoop(_, _)
WorkerLoop(st, lines) ==
  IF lines = <<>> \/ st.exc # "" THEN st
  ELSE WorkerLoop(WorkerLine(st, Head(lines)), Tail(lines))

ZeroStats == [total_records |-> 0, filtered_records |-> 0, error_records |-> 0]

Pending ==
  [status |-> "pending", error |-> "", stats |-> ZeroStats,
   has_data |-> FALSE, data |-> EmptyFrame]

ErrorResult(message) ==
  [status |-> "error", error |-> message, stats |-> ZeroStats,
   has_data |-> FALSE, data |-> EmptyFrame]

SuccessResult(st) ==
  [status |-> "success", error |-> "",
   stats |-> [total_records |-> st.total_records,
              filtered_records |-> st.filtered_records,
              error_records |-> st.error_records],
   has_data |-> TRUE,
   data |-> IF st.records # <<>>
              THEN _aggregate_by_hour_endpoint(st.records)
              ELSE EmptyFrame]

\* Faulty variant: an exception ends the loop and the worker returns what it has
\* counted so far as a success.
_process_chunk_multiprocessing_KeepsPartial(lines, open_fails) ==
  IF open_fails THEN ErrorResult("OSError")
  ELSE SuccessResult([WorkerLoop(WorkerLocals, lines) EXCEPT !.exc = ""])

\* The worker on one shard file; open_fails: open(chunk_file) raises.
_process_chunk_multiprocessing(lines, open_fails) ==
  IF open_fails THEN ErrorResult("OSError")
  ELSE LET st == WorkerLoop(WorkerLocals, lines)
       IN IF st.exc # "" THEN ErrorResult(st.exc) ELSE SuccessResult(st)

\* ------------------------------------------- the parent's consolidation
\* "for result in results" (lines 181-187); acc holds the parent's locals.
RECURSIVE CollectResults(_, _)
CollectResults(acc, rs) ==
  IF rs = <<>> THEN acc
  ELSE LET result == Head(rs)
           next ==
             IF result.status = "success"
               THEN [total_records |->
                       acc.total_records + result.stats.total_records,
                     filtered_records |->
                       acc.filtered_records + result.stats.filtered_records,
                     error_records |->
                       acc.error_records + result.stats.error_records,
                     processed_dfs |->
                       IF result.has_data /\ Len(result.data.rows) > 0
                         THEN Append(acc.processed_dfs, result.data)
                         ELSE acc.processed_dfs]
               ELSE acc
       IN CollectResults(next, Tail(rs))

Min(a, b) == IF a <= b THEN a ELSE b

\* The lines of the files the multiprocessing strategy is run on.
LinesMP ==
  { BlankLine, MalformedLine, ScalarLine,
    Obj("200", "2025-01-01T10:15:00Z", "/a", "100"),
    Obj("500", "2025-01-01T10:15:00Z", "/a", "100"),
    Obj("500", "2025-01-01T10:45:00", "/a", "300"),
    Obj("503", "2025-01-01T11:05:00Z", "/b", "200") }

\* Files in which a record with a response_time_ms that is not a number
\* shares the file with a well-formed one, or stands alone.
MixedFiles ==
  { << Obj("500", "2025-01-01T10:15:00Z", "/a", "100"),
       Obj("500", "2025-01-01T10:15:00Z", "/a", "abc") >>,
    << Obj("500", "2025-01-01T10:15:00Z", "/a", "abc") >> }

InputFilesMP == SeqsUpTo(LinesMP, MaxLines) \cup ScenarioFiles \cup MixedFiles

InitMP ==
  /\ file \in InputFilesMP
  /\ shard_size \in 1..MaxShard
  /\ chunks = <<>>
  /\ num_workers = 0
  /\ results = <<>>
  /\ processed_dfs = <<>>
  /\ split_exc = ""
  /\ chunk_size = 1
  /\ pc = "idle"
  /\ line_num = 0
  /\ batch = <<>>
  /\ records = <<>>
  /\ total_records = 0
  /\ filtered_records = 0
  /\ error_records = 0
  /\ final_df = EmptyFrame
  /\ stats = NoStats
  /\ exc = ""
  /\ ExportIdle
  /\ CleanIdle
  /\ BenchIdle
  /\ ETLIdle
  /\ WarehouseIdle
  /\ PoolIdle

mpFrame ==
  << file, chunk_size, line_num, batch, records, exportVars, cleanVars,
     benchVars, etlVars, warehouseVars, poolVars >>

\* What can go wrong in the partitioner: temp_dir.mkdir raises (line 449,
\* outside the try), or reading the input or writing a shard raises inside
\* the try (lines 451-477).
SplitFailures == {"none", "mkdir", "io"}

\* The partitioner as called (lines 443-481): an exception inside the try is
\* logged and [] is returned in place of the shards.
SplitCall(lines, K, failure) ==
  IF failure = "mkdir"
    THEN [raised |-> "PermissionError", caught |-> "", chunks |-> <<>>]
  ELSE IF failure = "io"
    THEN [raised |-> "", caught |-> "OSError", chunks |-> <<>>]
  ELSE [raised |-> "", caught |-> "",
        chunks |-> _split_log_file_for_multiprocessing(lines, K)]

\* The file is split and the pool is created (lines 165-171); Pool(0)
\* raises ValueError.
SplitAndStartPool ==
  /\ pc = "idle"
  /\ \E failure \in SplitFailures :
       LET split == SplitCall(file, shard_size, failure)
       IN /\ chunks' = split.chunks
          /\ split_exc' = split.caught
          /\ IF split.raised # ""
               THEN /\ pc' = "failed"
                    /\ exc' = split.raised
                    /\ num_workers' = num_workers
                    /\ results' = <<>>
               ELSE /\ num_workers' = Min(CpuCount, Len(split.chunks))
                    /\ IF Min(CpuCount, Len(split.chunks)) < 1
                         THEN /\ pc' = "failed"
                              /\ exc' = "ValueError"
                              /\ results' = <<>>
                         ELSE /\ pc' = "pool"
                              /\ exc' = ""
                              /\ results' =
                                   [i \in 1..Len(split.chunks) |-> Pending]
  /\ UNCHANGED << shard_size, processed_dfs, total_records, filtered_records,
                  error_records, final_df, stats >>
  /\ UNCHANGED mpFrame

\* A worker of the pool processes one shard and its result is stored at
\* the shard's place in pool.map's list.
WorkerRun ==
  /\ pc = "pool"
  /\ \E i \in 1..Len(chunks), open_fails \in BOOLEAN :
       /\ results[i].status = "pending"
       /\ results' =
            [results EXCEPT
               ![i] = _process_chunk_multiprocessing(chunks[i], open_fails)]
  /\ UNCHANGED << shard_size, chunks, num_workers, processed_dfs, pc, exc,
                  total_records, filtered_records, error_records, final_df,
                  stats, split_exc >>
  /\ UNCHANGED mpFrame

\* pool.map has returned: the parent consolidates (lines 174-198).
MergeResults ==
  /\ pc = "pool"
  /\ \A i \in 1..Len(results) : results[i].status # "pending"
  /\ LET acc == CollectResults(
                  [total_records |-> 0, filtered_records |-> 0,
                   error_records |-> 0, processed_dfs |-> <<>>], results)
         r == Consolidate(acc.processed_dfs)
     IN /\ total_records' = acc.total_records
        /\ filtered_records' = acc.filtered_records
        /\ error_records' = acc.error_records
        /\ processed_dfs' = acc.processed_dfs
        /\ final_df' = r.frame
        /\ exc' = r.exc
        /\ pc' = IF r.exc # "" THEN "failed" ELSE "exporting"
  /\ UNCHANGED << shard_size, chunks, num_workers, results, stats,
                  split_exc >>
  /\ UNCHANGED mpFrame

\* Export and the stats dictionary (lines 200-225).
ExportMP ==
  /\ pc = "exporting"
  /\ stats' = [method |-> "multiprocessing",
               num_workers |-> num_workers,
               total_records |-> total_records,
               filtered_records |-> filtered_records,
               processed_records |-> Len(final_df.rows),
               error_records |-> error_records]
  /\ pc' = "done"
  /\ UNCHANGED << shard_size, chunks, num_workers, results, processed_dfs,
                  total_records, filtered_records, error_records, final_df,
                  exc, split_exc >>
  /\ UNCHANGED mpFrame

NextMP == SplitAndStartPool \/ WorkerRun \/ MergeResults \/ ExportMP

SpecMP == InitMP /\ [][NextMP]_vars

\* ====================================================================
\* Properties of the multiprocessing strategy (specification SpecMP)
\* ====================================================================
OrdersOf(n) ==
  { q \in [1..n -> 1..n] : \A i, j \in 1..n : q[i] = q[j] => i = j }

Permuted(frames, q) == [i \in 1..Len(frames) |-> frames[q[i]]]

\* C7: merge commutativity: merging the same partial aggregates in any
\* order gives the same final count for every (hour, endpoint) key.
C7_MergeCommutes ==
  Merged =>
    \A q \in OrdersOf(Len(processed_dfs)) :
      LET r == Consolidate(Permuted(processed_dfs, q))
      IN /\ r.exc = ""
         /\ \A key \in Keys : CountOf(r.frame, key) = CountOf(final_df, key)

C7_Witness ==
  /\ Merged
  /\ Len(processed_dfs) >= 2
  /\ \E key \in Keys :
       /\ CountOf(processed_dfs[1], key) >= 1
       /\ CountOf(processed_dfs[2], key) >= 1
       /\ CountOf(processed_dfs[1], key) # CountOf(processed_dfs[2], key)

RECURSIVE Flatten(_)
Flatten(ss) == IF ss = <<>> THEN <<>> ELSE Head(ss) \o Flatten(Tail(ss))

CeilDiv(n, k) == (n + k - 1) \div k

\* The partitioner has returned its shards (nothing went wrong in it).
Partitioned ==
  /\ pc \in {"pool", "exporting", "done", "failed"}
  /\ split_exc = ""
  /\ exc # "PermissionError"

\* C8: partitioning is lossless, contiguous and order-preserving: N lines
\* and shard size K give ceil(N/K) shards, shard i (from 0) holds lines
\* i*K .. min((i+1)*K, N)-1 in order, every shard but the last has K lines,
\* none is empty, and the shards concatenated in list order are the file
\* (5 lines with K = 2 give shards of 2 / 2 / 1, the scaled scenario).
C8_PartitionComplete ==
  Partitioned =>
    LET N == Len(file)
        K == shard_size
    IN /\ Len(chunks) = CeilDiv(N, K)
       /\ \A i \in 0..(Len(chunks) - 1) :
            /\ chunks[i + 1] = SubSeq(file, i * K + 1, Min((i + 1) * K, N))
            /\ Len(chunks[i + 1]) >= 1
            /\ i + 1 < Len(chunks) => Len(chunks[i + 1]) = K
       /\ Flatten(chunks) = file
       /\ (N = 5 /\ K = 2) =>
            [i \in 1..Len(chunks) |-> Len(chunks[i])] = <<2, 2, 1>>

C8_Witness ==
  /\ Partitioned
  /\ Len(file) = 5
  /\ shard_size = 2
  /\ Len(chunks) = 3
  /\ \E i \in 1..Len(file) : IsBlank(file[i])

\* A line whose handling raises something other than JSONDecodeError.
Raises(l) ==
  \/ l.kind = "scalar"
  \/ l.kind = "object" /\ l.status_code \notin NumberLiterals \cup {ABSENT}

ShardRaises(lines) == \E i \in 1..Len(lines) : Raises(lines[i])

Succeeded == { i \in 1..Len(results) : results[i].status = "success" }

RECURSIVE SumOver(_, _)
SumOver(f, S) ==
  IF S = {} THEN 0
  ELSE LET x == CHOOSE y \in S : TRUE IN f[x] + SumOver(f, S \ {x})

MaxRps == 1

MaxMem == 1

\* The order in which run_all_benchmarks invokes the strategies.
StrategyOrder == << "pandas_streaming", "multiprocessing", "polars", "dask" >>

\* str(e) of the exceptions a strategy raises.
Messages == {"OSError", "ValueError"}

\* What a call of a strategy does: it returns a stats dictionary (which has
\* no 'status' key), returns a 'skipped' entry, or raises.
\* opens: the call got as far as opening the input file.
Returns(rps, mem) ==
  [raises |-> FALSE, status |-> ABSENT, error |-> "", reason |-> "",
   records_per_second |-> rps, memory_used_mb |-> mem, opens |-> TRUE]

Skipped ==
  [raises |-> FALSE, status |-> "skipped", error |-> "",
   reason |-> "library_not_available", records_per_second |-> 0,
   memory_used_mb |-> 0, opens |-> FALSE]

RaisesWith(message) ==
  [raises |-> TRUE, status |-> ABSENT, error |-> message, reason |-> "",
   records_per_second |-> 0, memory_used_mb |-> 0, opens |-> TRUE]

Runs ==
  { Returns(rps, mem) : rps \in 0..MaxRps, mem \in 0..MaxMem }
    \cup { RaisesWith(m) : m \in Messages }

\* process_with_polars and process_with_dask return 'skipped' at once when
\* their library is missing (lines 229-231, 320-322).
Outcomes(strategy, has_polars, has_dask) ==
  IF strategy = "polars" /\ ~has_polars THEN {Skipped}
  ELSE IF strategy = "dask" /\ ~has_dask THEN {Skipped}
  ELSE Runs

\* Faulty variant: the exception of a strategy is not caught.
TryStrategy_NoExcept(outcome) ==
  IF outcome.raises
    THEN [stored |-> FALSE, escaped |-> outcome.error,
          entry |-> [status |-> "error", error |-> outcome.error,
                     reason |-> "", records_per_second |-> 0,
                     memory_used_mb |-> 0]]
    ELSE [stored |-> TRUE, escaped |-> "",
          entry |-> [status |-> outcome.status, error |-> "",
                     reason |-> outcome.reason,
                     records_per_second |-> outcome.records_per_second,
                     memory_used_mb |-> outcome.memory_used_mb]]

\* try: results[name] = strategy()
\* except Exception as e: results[name] = {'status': 'error', 'error': str(e)}
TryStrategy(outcome) ==
  IF outcome.raises
    THEN [stored |-> TRUE, escaped |-> "",
          entry |-> [status |-> "error", error |-> outcome.error,
                     reason |-> "", records_per_second |-> 0,
                     memory_used_mb |-> 0]]
    ELSE [stored |-> TRUE, escaped |-> "",
          entry |-> [status |-> outcome.status, error |-> "",
                     reason |-> outcome.reason,
                     records_per_second |-> outcome.records_per_second,
                     memory_used_mb |-> outcome.memory_used_mb]]

\* Faulty variant: polars is run before multiprocessing.
After_PolarsFirst(i) ==
  CASE i = 1 -> StrategyOrder[3]
    [] i = 3 -> StrategyOrder[2]
    [] i = 2 -> StrategyOrder[4]
    [] OTHER -> "report"

\* bench_pc after the strategy at position i.
After(i) == IF i < Len(StrategyOrder) THEN StrategyOrder[i + 1] ELSE "report"

\* ------------------------------------------- _generate_benchmark_report
\* Faulty variant: a 'skipped' entry is kept among the valid ones.
ValidResults_KeepsSkipped(entries) ==
  { k \in DOMAIN entries : entries[k].status # "error" }

\* valid_results: the entries without 'status' or whose status is neither
\* 'error' nor 'skipped'.
ValidResults(entries) ==
  { k \in DOMAIN entries : entries[k].status \notin {"error", "skipped"} }

\* The position of a key in the dictionary's order.
PositionOf(strategy) ==
  CHOOSE i \in 1..Len(StrategyOrder) : StrategyOrder[i] = strategy

\* max(valid_results.items(), key=records_per_second): the first of the
\* entries with the highest value, in the dictionary's order.
Fastest(entries, valid) ==
  CHOOSE k \in valid :
    \A j \in valid :
      \/ entries[j].records_per_second < entries[k].records_per_second
      \/ /\ entries[j].records_per_second = entries[k].records_per_second
         /\ PositionOf(k) <= PositionOf(j)

\* min(valid_results.items(), key=memory_used_mb)
MostEfficient(entries, valid) ==
  CHOOSE k \in valid :
    \A j \in valid :
      \/ entries[j].memory_used_mb > entries[k].memory_used_mb
      \/ /\ entries[j].memory_used_mb = entries[k].memory_used_mb
         /\ PositionOf(k) <= PositionOf(j)

\* The status column of an entry's row in the table (lines 607-616).
RowOf(result) ==
  IF result.status = "error" THEN "ERROR"
  ELSE IF result.status = "skipped" THEN "SKIPPED"
  ELSE "SUCCESS"

_generate_benchmark_report(entries) ==
  LET valid_results == ValidResults(entries)
  IN [written |-> TRUE,
      rows |-> [k \in DOMAIN entries |-> RowOf(entries[k])],
      fastest |-> IF valid_results # {}
                    THEN Fastest(entries, valid_results) ELSE ABSENT,
      most_efficient |-> IF valid_results # {}
                           THEN MostEfficient(entries, valid_results)
                           ELSE ABSENT]

InitBench ==
  /\ input_exists \in BOOLEAN
  /\ HAS_POLARS \in BOOLEAN
  /\ HAS_DASK \in BOOLEAN
  /\ bench_pc = "start"
  /\ bench_results = << >>
  /\ calls = [s \in Strategies |-> 0]
  /\ raised_msg = [s \in Strategies |-> ""]
  /\ bench_exc = ""
  /\ opened = {}
  /\ report = NoReport
  /\ main_pc \in {"none", "start"}
  /\ main_result = "none"
  /\ file = <<>>
  /\ chunk_size = 1
  /\ pc = "idle"
  /\ line_num = 0
  /\ batch = <<>>
  /\ records = <<>>
  /\ total_records = 0
  /\ filtered_records = 0
  /\ error_records = 0
  /\ final_df = EmptyFrame
  /\ stats = NoStats
  /\ exc = ""
  /\ ExportIdle
  /\ CleanIdle
  /\ MPIdle
  /\ ETLIdle
  /\ WarehouseIdle
  /\ PoolIdle

benchFrame ==
  << pandasVars, cleanVars, mpVars, etlVars, warehouseVars, poolVars >>

\* "Verificar que el archivo de entrada existe" (lines 553-556)
CheckInput ==
  /\ bench_pc = "start"
  /\ main_pc \in {"none", "benchmarks"}
  /\ IF input_exists
       THEN /\ bench_pc' = StrategyOrder[1]
            /\ bench_results' = bench_results
       ELSE /\ bench_pc' = "returned"
            /\ bench_results' = [k \in {"error"} |-> "input_file_not_found"]
  /\ UNCHANGED << input_exists, HAS_POLARS, HAS_DASK, calls, raised_msg,
                  bench_exc, opened, report, main_pc, main_result >>
  /\ UNCHANGED benchFrame

\* One of the four try blocks (lines 561-587).
RunStrategy ==
  /\ bench_pc \in Strategies
  /\ \E outcome \in Outcomes(bench_pc, HAS_POLARS, HAS_DASK) :
       LET t == TryStrategy(outcome)
       IN /\ calls' = [calls EXCEPT ![bench_pc] = @ + 1]
          /\ raised_msg' =
               [raised_msg EXCEPT
                  ![bench_pc] = IF outcome.raises THEN outcome.error ELSE @]
          /\ bench_results' =
               IF t.stored
                 THEN [k \in DOMAIN bench_results \cup {bench_pc} |->
                         IF k = bench_pc THEN t.entry ELSE bench_results[k]]
                 ELSE bench_results
          /\ bench_exc' = t.escaped
          /\ bench_pc' = IF t.escaped # "" THEN "raised"
                         ELSE After(PositionOf(bench_pc))
          /\ opened' = IF outcome.opens THEN opened \cup {bench_pc}
                       ELSE opened
  /\ UNCHANGED << input_exists, HAS_POLARS, HAS_DASK, report, main_pc,
                  main_result >>
  /\ UNCHANGED benchFrame

\* self._generate_benchmark_report(results); return results (lines 589-592).
\* Opening or writing the report file may raise.
ReportAndReturn ==
  /\ bench_pc = "report"
  /\ \E write_fails \in BOOLEAN :
       /\ bench_pc' = IF write_fails THEN "raised" ELSE "returned"
       /\ bench_exc' = IF write_fails THEN "ReportOSError" ELSE ""
       /\ report' = IF write_fails THEN report
                    ELSE _generate_benchmark_report(bench_results)
  /\ UNCHANGED << input_exists, HAS_POLARS, HAS_DASK, bench_results, calls,
                  raised_msg, opened, main_pc, main_result >>
  /\ UNCHANGED benchFrame

\* ------------------------------------------------------------- main()
\* Lines 656-665: a missing input file is generated; the import or the
\* generation may raise, which main() catches (lines 693-696).
MainCheckInput ==
  /\ main_pc = "start"
  /\ \E generated \in BOOLEAN :
       IF input_exists \/ generated
         THEN /\ input_exists' = TRUE
              /\ main_pc' = "benchmarks"
              /\ main_result' = main_result
         ELSE /\ input_exists' = input_exists
              /\ main_pc' = "returned"
              /\ main_result' = "False"
  /\ UNCHANGED << HAS_POLARS, HAS_DASK, bench_pc, bench_results, calls,
                  raised_msg, bench_exc, opened, report >>
  /\ UNCHANGED benchFrame

\* The summary loop (lines 675-685): result.get on a value that is not a
\* dictionary (the string under the key 'error') raises AttributeError.
SummaryRaises(entries) == "error" \in DOMAIN entries

\* Lines 669-696: run_all_benchmarks has returned or raised; main() returns
\* True unless an exception reached its except clause.
MainReturn ==
  /\ main_pc = "benchmarks"
  /\ bench_pc \in {"returned", "raised"}
  /\ main_pc' = "returned"
  /\ main_result' = IF bench_pc = "raised" \/ SummaryRaises(bench_results)
                      THEN "False" ELSE "True"
  /\ UNCHANGED << input_exists, HAS_POLARS, HAS_DASK, bench_pc, bench_results,
                  calls, raised_msg, bench_exc, opened, report >>
  /\ UNCHANGED benchFrame

NextBench ==
  CheckInput \/ RunStrategy \/ ReportAndReturn \/ MainCheckInput \/ MainReturn

SpecBench == InitBench /\ [][NextBench]_vars

\* C10: strategy isolation: when the input file exists, whichever strategies
\* raise, every strategy is invoked exactly once and has exactly one entry in
\* the returned mapping; a strategy that raised has status 'error' with the
\* exception's message; run_all_benchmarks does not raise because of it.
C10_StrategyIsolation ==
  /\ (input_exists /\ bench_pc = "returned") =>
       /\ DOMAIN bench_results = Strategies
       /\ \A s \in Strategies :
            /\ calls[s] = 1
            /\ raised_msg[s] # "" =>
                 /\ bench_results[s].status = "error"
                 /\ bench_results[s].error = raised_msg[s]
            /\ raised_msg[s] = "" => bench_results[s].status # "error"
  /\ bench_pc = "raised" =>
       /\ bench_exc = "ReportOSError"
       /\ \A s \in Strategies : calls[s] = 1
  /\ \A s \in Strategies :
       /\ calls[s] <= 1
       /\ (bench_pc \in Strategies /\ PositionOf(s) < PositionOf(bench_pc))
            => calls[s] = 1 /\ s \in DOMAIN bench_results

C10_Witness ==
  /\ bench_pc = "returned"
  /\ input_exists
  /\ raised_msg["pandas_streaming"] = "OSError"
  /\ raised_msg["polars"] = "ValueError"
  /\ raised_msg["multiprocessing"] = ""
  /\ bench_results["dask"].status = "skipped"
  /\ bench_results["multiprocessing"].status = ABSENT

\* ====================================================================
\* Export, statistics and the merge of means (specification Spec)
\* ====================================================================
\* C12: on an empty input process_with_pandas_streaming returns a successful
\* RunStats with total_records = 0, processed_records = 0 and
\* records_per_second = 0, and no measured duration, a duration of zero
\* included, makes the throughput computation raise ZeroDivisionError.
C12_EmptyInputSucceeds ==
  /\ exc # "ZeroDivisionError"
  /\ (file = <<>> /\ pc \in {"done", "failed"}) =>
       /\ pc = "done"
       /\ stats.total_records = 0
       /\ stats.processed_records = 0
       /\ stats.records_per_second = 0
       /\ final_df.rows = <<>>

PartialsOf(key) == Group(ConcatRows(records), key)

\* The mean response time over all of a key's cleaned records of the file.
MeanOverRecords(key) ==
  MeanInt(ResponseTimes(Group(CleanedOf(file), key)))

Available(strategy) ==
  CASE strategy = "polars" -> HAS_POLARS
    [] strategy = "dask" -> HAS_DASK
    [] OTHER -> TRUE

\* The entries that are neither 'error' nor 'skipped'.
Successful ==
  { s \in DOMAIN bench_results :
      bench_results[s].status \notin {"error", "skipped"} }

\* C11: a strategy whose optional engine is unavailable returns an entry
\* with status 'skipped' and a reason without reading the input; the
\* report's fastest strategy is an entry that is neither 'error' nor
\* 'skipped' with the highest records_per_second among those, its most
\* memory-efficient one such an entry with the lowest memory_used_mb, and
\* both lines are omitted when there is no such entry.
C11_SkippedAndBest ==
  /\ \A s \in Strategies :
       (s \in DOMAIN bench_results /\ ~Available(s)) =>
         /\ bench_results[s].status = "skipped"
         /\ bench_results[s].reason # ""
         /\ s \notin opened
  /\ report.written =>
       /\ Successful = {} =>
            report.fastest = ABSENT /\ report.most_efficient = ABSENT
       /\ Successful # {} =>
            /\ report.fastest \in Successful
            /\ \A s \in Successful :
                 bench_results[s].records_per_second
                   <= bench_results[report.fastest].records_per_second
            /\ report.most_efficient \in Successful
            /\ \A s \in Successful :
                 bench_results[s].memory_used_mb
                   >= bench_results[report.most_efficient].memory_used_mb

C11_Witness ==
  /\ report.written
  /\ bench_results["polars"].status = "skipped"
  /\ "polars" \notin opened
  /\ bench_results["pandas_streaming"].status = "error"
  /\ report.fastest = "dask"
  /\ report.most_efficient = "multiprocessing"
  /\ bench_results["dask"].records_per_second
       > bench_results["multiprocessing"].records_per_second
  /\ bench_results["dask"].memory_used_mb
       > bench_results["multiprocessing"].memory_used_mb

\* C14: a missing input file is handled at the per-strategy boundary:
\* run_all_benchmarks does not raise, every strategy is invoked and is
\* recorded with status 'error' and a message, and the report is written
\* with those entries.
C14_MissingInputPerStrategy ==
  (~input_exists /\ bench_pc \in {"returned", "raised"}) =>
    /\ bench_pc = "returned"
    /\ DOMAIN bench_results = Strategies
    /\ \A s \in Strategies :
         /\ calls[s] = 1
         /\ bench_results[s].status = "error"
         /\ bench_results[s].error # ""
    /\ report.written

\* C15: the value main() returns reflects whether the required baseline
\* strategy succeeded: it returns True only when pandas_streaming did not
\* end with status 'error', so never when every strategy ended with 'error'.
C15_ExitReflectsBaseline ==
  main_result = "True" =>
    /\ "pandas_streaming" \in DOMAIN bench_results
    /\ bench_results["pandas_streaming"].status # "error"
    /\ \E s \in Strategies : bench_results[s].status # "error"

\* ====================================================================
\* Empty input and partitioning failure (specification SpecMP)
\* ====================================================================
\* C13: on an empty input (zero lines, zero shards) with nothing going wrong
\* in the partitioner, process_with_multiprocessing ends successfully: the
\* pool accepts its size min(cpu_count, shard_count), and a RunStats with
\* total_records = 0 and an empty final aggregate is returned.
C13_EmptyInputSucceedsMP ==
  (file = <<>> /\ Partitioned) =>
    /\ num_workers >= 1
    /\ pc # "failed"
    /\ Finished => (stats.total_records = 0 /\ final_df.rows = <<>>)

\* C16: a failure inside the partitioner (a shard cannot be written) is
\* surfaced: the multiprocessing strategy fails with that exception, no
\* shard list is handed to the pool, and nothing is merged or returned.
C16_PartitionFailureSurfaced ==
  split_exc # "" =>
    /\ pc = "failed"
    /\ exc = split_exc
    /\ results = <<>>
    /\ stats = NoStats

\* ====================================================================
\* ETLProcessor (src/etl/processor.py, specification SpecETL)
\* ====================================================================
\* A table is a DataFrame of transactions: its rows hold the text of the
\* columns user_id, amount and timestamp ("<null>" for a missing value);
\* amount_is_text says that read_csv found a non-numeric amount and kept
\* the whole column as strings (dtype object).  Files named *.log.gz take
\* another path of extract and are not input here.
MaxRows == 2

AmountTokens == {NULL, "-50", "0", "100"}

AmountOf(tok) ==
  CASE tok = "-50" -> 0 - 50
    [] tok = "0" -> 0
    [] tok = "100" -> 100
    [] tok = "200" -> 200
    [] tok = "300" -> 300

DateStrings == {"2025-01-01 12:00:00", "2025-01-05 16:00:00"}

TxTimestampTokens == {NULL, "invalid_date", "2025-01-01 12:00:00"}

Tx(u, a, t) == [user_id |-> u, amount |-> a, timestamp |-> t]

TxRows ==
  { Tx(u, a, t) : u \in {NULL, "1"}, a \in AmountTokens,
                  t \in TxTimestampTokens }

Table(is_text, rows) == [amount_is_text |-> is_text, rows |-> rows]

\* The frame of test_etl_processor: five rows of which the fourth has an
\* invalid date and a negative amount and the fifth the amount 0.
ScenarioTable ==
  Table(FALSE,
        << Tx("1", "100", "2025-01-01 12:00:00"),
           Tx("1", "200", "2025-01-01 12:00:00"),
           Tx("1", "300", "2025-01-01 12:00:00"),
           Tx("1", "-50", "invalid_date"),
           Tx("1", "0", "2025-01-05 16:00:00") >>)

Tables ==
  { Table(is_text, rows) :
      is_text \in BOOLEAN, rows \in SeqsUpTo(TxRows, MaxRows) }
    \cup {ScenarioTable}

\* pd.to_datetime(value, errors='coerce'): a Timestamp, or NaT (a null).
to_datetime(tok) ==
  CASE tok = "2025-01-01 12:00:00" -> "Timestamp('2025-01-01 12:00:00')"
    [] tok = "2025-01-05 16:00:00" -> "Timestamp('2025-01-05 16:00:00')"
    [] OTHER -> NULL

\* dropna(): a row with a null in any column is removed.
HasNull(row) == \E c \in DOMAIN row : row[c] = NULL

\* --------------------------------------------- ETLProcessor.transform
\* Faulty variant: the amount filter keeps the amount 0.
transform_KeepsZero(df) ==
  IF Len(df.rows) = 0 THEN [exc |-> "", df |-> df]
  ELSE
    LET converted ==
          [i \in 1..Len(df.rows) |->
             [df.rows[i] EXCEPT !.timestamp = to_datetime(@)]]
        dropped == SelectSeq(converted, LAMBDA row : ~HasNull(row))
    IN IF df.amount_is_text /\ dropped # <<>>
         THEN [exc |-> "TypeError", df |-> df]
         ELSE [exc |-> "",
               df |-> Table(df.amount_is_text,
                            SelectSeq(dropped,
                                      LAMBDA row : AmountOf(row.amount) >= 0))]

\* Lines 101-141.  Comparing a column of strings with 0 raises TypeError.
transform(df) ==
  IF Len(df.rows) = 0 THEN [exc |-> "", df |-> df]
  ELSE
    LET converted ==
          [i \in 1..Len(df.rows) |->
             [df.rows[i] EXCEPT !.timestamp = to_datetime(@)]]
        dropped == SelectSeq(converted, LAMBDA row : ~HasNull(row))
    IN IF df.amount_is_text /\ dropped # <<>>
         THEN [exc |-> "TypeError", df |-> df]
         ELSE [exc |-> "",
               df |-> Table(df.amount_is_text,
                            SelectSeq(dropped,
                                      LAMBDA row : AmountOf(row.amount) > 0))]

\* ----------------------------------------------- ETLProcessor.extract
\* Lines 29-60: reads says whether the file was opened for reading.
extract(exists, table, read_fails) ==
  IF ~exists
    THEN [exc |-> "FileNotFoundError", reads |-> FALSE, df |-> Table(FALSE, <<>>)]
  ELSE IF read_fails
    THEN [exc |-> "ParserError", reads |-> TRUE, df |-> Table(FALSE, <<>>)]
  ELSE [exc |-> "", reads |-> TRUE, df |-> table]

\* -------------------------------------------------- ETLProcessor.load
\* Lines 143-180: to_csv or the SQLite write may raise.
load(df, write_fails) ==
  IF write_fails
    THEN [exc |-> "OSError", result |-> NoResult]
    ELSE [exc |-> "",
          result |-> [status |-> "success", records |-> Len(df.rows)]]

\* ------------------------------------------ ETLProcessor.process_file
\* Faulty variant: the exception of a stage is not caught.
OnException_Reraise(message) ==
  [pc |-> "raised", result |-> NoResult]

\* except Exception as e: return {'status': 'error', 'error': str(e), ...}
OnException(message) ==
  [pc |-> "returned", result |-> [status |-> "error", error |-> message]]

Stage(name, exception, reads) ==
  [stage |-> name, raised |-> exception, reads |-> reads]

\* The metrics dictionary (lines 210-218).
Metrics(raw, clean) ==
  [status |-> "success",
   records_input |-> Len(raw.rows),
   records_output |-> Len(clean.rows),
   compression_ratio |-> IF Len(raw.rows) > 0
                           THEN Frac(Len(clean.rows), Len(raw.rows))
                           ELSE Frac(0, 1)]

InitETL ==
  /\ input_path_exists \in BOOLEAN
  /\ input_table \in (IF input_path_exists THEN Tables
                                           ELSE {Table(FALSE, <<>>)})
  /\ etl_pc = "idle"
  /\ df_raw = Table(FALSE, <<>>)
  /\ df_clean = Table(FALSE, <<>>)
  /\ stages = <<>>
  /\ load_result = NoResult
  /\ etl_result = NoResult
  /\ file = <<>>
  /\ chunk_size = 1
  /\ pc = "idle"
  /\ line_num = 0
  /\ batch = <<>>
  /\ records = <<>>
  /\ total_records = 0
  /\ filtered_records = 0
  /\ error_records = 0
  /\ final_df = EmptyFrame
  /\ stats = NoStats
  /\ exc = ""
  /\ ExportIdle
  /\ CleanIdle
  /\ MPIdle
  /\ BenchIdle
  /\ WarehouseIdle
  /\ PoolIdle

etlFrame ==
  << pandasVars, cleanVars, mpVars, benchVars, warehouseVars, poolVars >>

\* df_raw = self.extract(input_path)
Extract ==
  /\ etl_pc = "idle"
  /\ \E read_fails \in BOOLEAN :
       LET r == extract(input_path_exists, input_table, read_fails)
       IN /\ stages' = Append(stages, Stage("extract", r.exc, r.reads))
          /\ IF r.exc # ""
               THEN /\ etl_pc' = OnException(r.exc).pc
                    /\ etl_result' = OnException(r.exc).result
                    /\ df_raw' = df_raw
               ELSE /\ etl_pc' = "extracted"
                    /\ etl_result' = etl_result
                    /\ df_raw' = r.df
  /\ UNCHANGED << input_path_exists, input_table, df_clean, load_result >>
  /\ UNCHANGED etlFrame

\* df_clean = self.transform(df_raw)
Transform ==
  /\ etl_pc = "extracted"
  /\ LET r == transform(df_raw)
     IN /\ stages' = Append(stages, Stage("transform", r.exc, FALSE))
        /\ IF r.exc # ""
             THEN /\ etl_pc' = OnException(r.exc).pc
                  /\ etl_result' = OnException(r.exc).result
                  /\ df_clean' = df_clean
             ELSE /\ etl_pc' = "transformed"
                  /\ etl_result' = etl_result
                  /\ df_clean' = r.df
  /\ UNCHANGED << input_path_exists, input_table, df_raw, load_result >>
  /\ UNCHANGED etlFrame

\* result = self.load(df_clean, output_path), the metrics and the return.
Load ==
  /\ etl_pc = "transformed"
  /\ \E write_fails \in BOOLEAN :
       LET r == load(df_clean, write_fails)
       IN /\ stages' = Append(stages, Stage("load", r.exc, FALSE))
          /\ load_result' = r.result
          /\ IF r.exc # ""
               THEN /\ etl_pc' = OnException(r.exc).pc
                    /\ etl_result' = OnException(r.exc).result
               ELSE /\ etl_pc' = "returned"
                    /\ etl_result' = Metrics(df_raw, df_clean)
  /\ UNCHANGED << input_path_exists, input_table, df_raw, df_clean >>
  /\ UNCHANGED etlFrame

NextETL == Extract \/ Transform \/ Load

SpecETL == InitETL /\ [][NextETL]_vars

\* A row that transform keeps: no null field, a timestamp that parses as
\* a date, an amount above 0.
ValidRow(row) ==
  /\ row.user_id # NULL
  /\ row.amount # NULL
  /\ row.timestamp \in DateStrings
  /\ AmountOf(row.amount) > 0

Transformed == \E i \in 1..Len(stages) : stages[i] = Stage("transform", "", FALSE)

\* C19: transform returns exactly the rows of its input in which no field
\* is null, the timestamp parses as a date and amount > 0, in their order
\* and with the timestamp parsed: every other row is absent, an empty input
\* gives an empty output, an input without a valid row gives zero rows
\* (the frame of test_etl_processor keeps 3 of its 5 rows).
C19_TransformKeepsValidRows ==
  Transformed =>
    LET kept == SelectSeq(df_raw.rows, ValidRow)
    IN /\ Len(df_clean.rows) = Len(kept)
       /\ \A i \in 1..Len(kept) :
            /\ df_clean.rows[i].user_id = kept[i].user_id
            /\ df_clean.rows[i].amount = kept[i].amount
            /\ df_clean.rows[i].timestamp
                 \in { "Timestamp('2025-01-01 12:00:00')",
                       "Timestamp('2025-01-05 16:00:00')" }
       /\ df_raw.rows = <<>> => df_clean.rows = <<>>
       /\ (\A i \in 1..Len(df_raw.rows) : ~ValidRow(df_raw.rows[i]))
            => df_clean.rows = <<>>
       /\ df_raw = ScenarioTable => Len(df_clean.rows) = 3

C19_Witness ==
  /\ Transformed
  /\ df_raw = ScenarioTable
  /\ Len(df_clean.rows) = 3

Raised == { i \in 1..Len(stages) : stages[i].raised # "" }

StageNames == [i \in 1..Len(stages) |-> stages[i].stage]

\* C20: extract on a non-existent path raises FileNotFoundError before
\* reading anything; process_file never raises: a failure of extract,
\* transform or load is returned as a result with status 'error' and the
\* message, no stage runs after a failed one, and a successful run returns
\* status 'success' with records_output <= records_input.
C20_ProcessFileNeverRaises ==
  /\ etl_pc # "raised"
  /\ (~input_path_exists /\ stages # <<>>) =>
       stages = << Stage("extract", "FileNotFoundError", FALSE) >>
  /\ \A i \in Raised :
       /\ i = Len(stages)
       /\ etl_pc = "returned"
       /\ etl_result.status = "error"
       /\ etl_result.error = stages[i].raised
  /\ etl_pc = "returned" =>
       /\ etl_result.status \in {"success", "error"}
       /\ etl_result.status = "error" => Raised # {}
       /\ etl_result.status = "success" =>
            /\ StageNames = << "extract", "transform", "load" >>
            /\ Raised = {}
            /\ etl_result.records_input = Len(input_table.rows)
            /\ etl_result.records_output = load_result.records
            /\ etl_result.records_output <= etl_result.records_input

C20_Witness ==
  /\ etl_pc = "returned"
  /\ etl_result.status = "error"
  /\ etl_result.error = "TypeError"
  /\ StageNames = << "extract", "transform" >>

\* ------------------------------------------------------ DataWarehouse
\* modeling/warehouse.py: a star schema in SQLite.  A dimension table is a
\* set of rows [key, value] (user_key/user_id, time_key/date,
\* status_key/status_code); fact_transactions is the sequence of its rows in
\* insertion order.
MaxFacts == 3
MaxFrameRows == 2

\* None, as _get_user_key / _get_time_key / _get_status_key return it and
\* as SQLite stores it in a key column (keys proper start at 1).
NoKey == 0

WarehouseTimestamps ==
  {"2025-01-01 12:00:00", "2025-01-01 18:30:00", "2025-01-02 13:00:00"}

\* pd.to_datetime(value).date() for a value it parses.
date(timestamp) ==
  CASE timestamp = "2025-01-01 12:00:00" -> "2025-01-01"
    [] timestamp = "2025-01-01 18:30:00" -> "2025-01-01"
    [] timestamp = "2025-01-02 13:00:00" -> "2025-01-02"

Transaction(o, u, s, t) ==
  [order_id |-> o, user_id |-> u, status |-> s, timestamp |-> t]

\* The first two rows of test_warehouse_operations, a second order of
\* user 1 later on the same day, a row without user_id, a row without
\* order_id and a row whose timestamp is not a date.
TransactionRows ==
  { Transaction("1", "1", "completed", "2025-01-01 12:00:00"),
    Transaction("2", "2", "failed", "2025-01-02 13:00:00"),
    Transaction("3", "1", "completed", "2025-01-01 18:30:00"),
    Transaction("4", NULL, "completed", "2025-01-01 12:00:00"),
    Transaction(NULL, "2", "failed", "2025-01-02 13:00:00"),
    Transaction("6", "2", "failed", "invalid_date") }

TransactionFrames == SeqsUpTo(TransactionRows, MaxFrameRows)

\* drop_duplicates(): the first occurrence of each value, in order.
RECURSIVE drop_duplicates(_)
drop_duplicates(values) ==
  IF values = <<>> THEN <<>>
  ELSE LET init == drop_duplicates(SubSeq(values, 1, Len(values) - 1))
           last == values[Len(values)]
       IN IF \E i \in 1..Len(init) : init[i] = last THEN init
          ELSE Append(init, last)

Column(df, name) == [i \in 1..Len(df) |-> df[i][name]]

Database(users, times, statuses, facts, sequence) ==
  [dim_user |-> users, dim_time |-> times, dim_status |-> statuses,
   fact_transactions |-> facts, sqlite_sequence |-> sequence]

\* INSERT OR IGNORE INTO <table> of one value of the UNIQUE NOT NULL
\* column: the statement takes the next AUTOINCREMENT value whether or not
\* the row is kept, and a null or an already present value adds no row.
InsertOrIgnore(db, table, value) ==
  LET key == db.sqlite_sequence[table] + 1
      kept == /\ value # NULL
              /\ \A r \in db[table] : r.value # value
  IN [db EXCEPT
        ![table] = IF kept THEN @ \cup {[key |-> key, value |-> value]}
                   ELSE @,
        !.sqlite_sequence[table] = key]

RECURSIVE InsertAll(_, _, _)
InsertAll(db, table, values) ==
  IF values = <<>> THEN db
  ELSE InsertAll(InsertOrIgnore(db, table, Head(values)), table,
                 Tail(values))

\* _load_dimensions: the distinct user_id, date and status of the frame.
\* pd.to_datetime raises on a timestamp it cannot parse.
_load_dimensions(db, df) ==
  IF \E i \in 1..Len(df) : df[i].timestamp \notin WarehouseTimestamps
  THEN [exc |-> "ValueError", db |-> db]
  ELSE LET users == drop_duplicates(Column(df, "user_id"))
           dates == drop_duplicates(
                      [i \in 1..Len(df) |-> date(df[i].timestamp)])
           statuses == drop_duplicates(Column(df, "status"))
       IN [exc |-> "",
           db |-> InsertAll(InsertAll(InsertAll(db, "dim_user", users),
                                      "dim_time", dates),
                            "dim_status", statuses)]

\* SELECT <key> FROM <table> WHERE <column> = ?: the key of the row with
\* that value, None without one ('= NULL' matches no row).
GetKey(db, table, value) ==
  IF \E r \in db[table] : r.value = value
  THEN (CHOOSE r \in db[table] : r.value = value).key
  ELSE NoKey

_get_user_key(db, user_id) == GetKey(db, "dim_user", user_id)

_get_time_key(db, day) == GetKey(db, "dim_time", day)

_get_status_key(db, status_code) == GetKey(db, "dim_status", status_code)

Fact(key, row, user_key, time_key, status_key) ==
  [transaction_key |-> key, order_id |-> row.order_id,
   user_key |-> user_key, time_key |-> time_key, status_key |-> status_key,
   transaction_date |-> row.timestamp]

\* A loader that skips a row whose order_id is already stored.
InsertFact_OrIgnore(db, row) ==
  LET key == db.sqlite_sequence.fact_transactions + 1
      known == \E i \in 1..Len(db.fact_transactions) :
                 db.fact_transactions[i].order_id = row.order_id
  IN [db EXCEPT
        !.fact_transactions =
           IF known THEN @
           ELSE Append(@, Fact(key, row,
                               GetKey(db, "dim_user", row.user_id),
                               GetKey(db, "dim_time", date(row.timestamp)),
                               GetKey(db, "dim_status", row.status))),
        !.sqlite_sequence.fact_transactions = key]

\* One iteration of _load_facts's loop for a row with an order_id: the
\* three lookups and the plain INSERT INTO fact_transactions.
InsertFact(db, row) ==
  LET key == db.sqlite_sequence.fact_transactions + 1
  IN [db EXCEPT
        !.fact_transactions =
           Append(@, Fact(key, row,
                          _get_user_key(db, row.user_id),
                          _get_time_key(db, date(row.timestamp)),
                          _get_status_key(db, row.status))),
        !.sqlite_sequence.fact_transactions = key]

\* _load_facts: order_id is NOT NULL, so a row without one makes the
\* INSERT raise IntegrityError; fact_count counts the rows inserted.
RECURSIVE _load_facts(_, _, _)
_load_facts(db, df, fact_count) ==
  IF df = <<>> THEN [exc |-> "", db |-> db, fact_count |-> fact_count]
  ELSE IF Head(df).order_id = NULL
       THEN [exc |-> "IntegrityError", db |-> db, fact_count |-> fact_count]
       ELSE _load_facts(InsertFact(db, Head(df)), Tail(df), fact_count + 1)

LoadError(message) == [status |-> "error", message |-> message]

\* load_transactions on a database with (created) or without its tables.
\* Everything runs in one transaction that the connection's context manager
\* rolls back when an exception leaves the block.
load_transactions(db, created, df) ==
  IF ~created
  THEN [db |-> db, result |-> LoadError("OperationalError")]
  ELSE LET dims == _load_dimensions(db, df)
           facts == _load_facts(dims.db, df, 0)
       IN IF dims.exc # ""
          THEN [db |-> db, result |-> LoadError(dims.exc)]
          ELSE IF facts.exc # ""
               THEN [db |-> db, result |-> LoadError(facts.exc)]
               ELSE [db |-> facts.db,
                     result |-> [status |-> "success",
                                 facts_loaded |-> facts.fact_count,
                                 total_records |-> Len(df)]]

\* initialize_schema: every statement is CREATE TABLE / CREATE INDEX
\* IF NOT EXISTS, so existing tables and their rows are left as they are.
initialize_schema(db) == db

CurrentDatabase ==
  Database(dim_user, dim_time, dim_status, fact_transactions,
           sqlite_sequence)

SetDatabase(db) ==
  /\ dim_user' = db.dim_user
  /\ dim_time' = db.dim_time
  /\ dim_status' = db.dim_status
  /\ fact_transactions' = db.fact_transactions
  /\ sqlite_sequence' = db.sqlite_sequence

InitWarehouse ==
  /\ WarehouseIdle
  /\ file = <<>>
  /\ chunk_size = 1
  /\ pc = "idle"
  /\ line_num = 0
  /\ batch = <<>>
  /\ records = <<>>
  /\ total_records = 0
  /\ filtered_records = 0
  /\ error_records = 0
  /\ final_df = EmptyFrame
  /\ stats = NoStats
  /\ exc = ""
  /\ ExportIdle
  /\ CleanIdle
  /\ MPIdle
  /\ BenchIdle
  /\ ETLIdle
  /\ PoolIdle

warehouseFrame ==
  << pandasVars, cleanVars, mpVars, benchVars, etlVars, poolVars >>

\* warehouse.initialize_schema(); sqlite3 may fail to open or write the
\* database file, and the method then returns an error result.
InitializeSchema ==
  \E fails \in BOOLEAN :
    /\ IF fails
       THEN /\ warehouse_result' = LoadError("OperationalError")
            /\ UNCHANGED << schema_created, dim_user, dim_time, dim_status,
                            fact_transactions, sqlite_sequence >>
       ELSE /\ warehouse_result' =
                 [status |-> "success", message |-> "Esquema creado"]
            /\ schema_created' = TRUE
            /\ SetDatabase(initialize_schema(CurrentDatabase))
    /\ UNCHANGED << loaded_rows, warehouseFrame >>

\* warehouse.load_transactions(df)
LoadTransactions ==
  \E df \in TransactionFrames :
    /\ Len(fact_transactions) + Len(df) <= MaxFacts
    /\ LET call == load_transactions(CurrentDatabase, schema_created, df)
       IN /\ SetDatabase(call.db)
          /\ warehouse_result' = call.result
          /\ loaded_rows' = IF call.result.status = "success"
                            THEN loaded_rows \o df
                            ELSE loaded_rows
    /\ UNCHANGED << schema_created, warehouseFrame >>

NextWarehouse == InitializeSchema \/ LoadTransactions

SpecWarehouse == InitWarehouse /\ [][NextWarehouse]_vars

LoadSucceeded(result) ==
  /\ result.status = "success"
  /\ "facts_loaded" \in DOMAIN result

\* C21: every successful load_transactions reports facts_loaded equal to the
\* number of rows of its frame and adds that many rows to fact_transactions;
\* fact_transactions holds as many rows as all successful calls were given
\* (the same rows loaded twice are stored twice); initialize_schema, at any
\* point, leaves every stored row as it is.
C21_AppendOnlyFacts ==
  /\ [](Len(fact_transactions) = Len(loaded_rows))
  /\ [][/\ LoadSucceeded(warehouse_result') =>
             /\ warehouse_result'.facts_loaded
                  = Len(loaded_rows') - Len(loaded_rows)
             /\ warehouse_result'.facts_loaded
                  = Len(fact_transactions') - Len(fact_transactions)
        /\ ~LoadSucceeded(warehouse_result') =>
             UNCHANGED << dim_user, dim_time, dim_status,
                          fact_transactions >>]_vars

\* The same row was loaded again by a later call and is stored twice, and
\* the schema has been initialised again since.
C21_Witness ==
  /\ Len(fact_transactions) = MaxFrameRows + 1
  /\ loaded_rows[1] = loaded_rows[MaxFrameRows + 1]
  /\ fact_transactions[1].order_id
       = fact_transactions[MaxFrameRows + 1].order_id
  /\ fact_transactions[1].transaction_key
       # fact_transactions[MaxFrameRows + 1].transaction_key
  /\ warehouse_result = [status |-> "success", message |-> "Esquema creado"]

Values(table) == { r.value : r \in table }

LoadedValues(name) == { loaded_rows[i][name] : i \in 1..Len(loaded_rows) }

LoadedDates ==
  { date(loaded_rows[i].timestamp) : i \in 1..Len(loaded_rows) }

\* The fact's key is not null and is the key of the dimension row of value.
RefersTo(key, table, value) ==
  /\ key # NoKey
  /\ \E r \in table : r.key = key /\ r.value = value

\* C30: after successful loads dim_user, dim_time and dim_status hold exactly
\* one row per distinct user_id, date and status ever loaded; a dimension
\* row, once inserted, keeps its key; and every fact row's user_key, time_key
\* and status_key is non-null and is the key of the dimension row of that
\* fact's user_id, date and status.
C30_StarSchemaIntegrity ==
  /\ [](/\ Values(dim_user) = LoadedValues("user_id")
        /\ Cardinality(dim_user) = Cardinality(LoadedValues("user_id"))
        /\ Values(dim_time) = LoadedDates
        /\ Cardinality(dim_time) = Cardinality(LoadedDates)
        /\ Values(dim_status) = LoadedValues("status")
        /\ Cardinality(dim_status) = Cardinality(LoadedValues("status"))
        /\ \A i \in 1..Len(fact_transactions) :
             /\ RefersTo(fact_transactions[i].user_key, dim_user,
                         loaded_rows[i].user_id)
             /\ RefersTo(fact_transactions[i].time_key, dim_time,
                         date(loaded_rows[i].timestamp))
             /\ RefersTo(fact_transactions[i].status_key, dim_status,
                         loaded_rows[i].status))
  /\ [][/\ dim_user \subseteq dim_user'
        /\ dim_time \subseteq dim_time'
        /\ dim_status \subseteq dim_status']_vars

\* ---------------------------------------------------- the bounded batch
\* The cleaned record the next line of the stream adds to the batch, if any.
NextCleaned == CleanedOf(<< file[line_num + 1] >>)

\* C22: after every line the batch holds fewer than chunk_size cleaned
\* records; a line's handling aggregates and empties the batch exactly when
\* the record it appends is the chunk_size-th, and otherwise leaves the
\* partial aggregates alone and the batch as it was or one record longer.
C22_BoundedBatch ==
  /\ [](Len(batch) < chunk_size)
  /\ [][(line_num' = line_num + 1 /\ pc' = "reading") =>
          IF NextCleaned # <<>> /\ Len(batch) + 1 = chunk_size
            THEN /\ batch' = <<>>
                 /\ records' =
                      Append(records,
                             _aggregate_by_hour_endpoint(batch \o NextCleaned))
            ELSE /\ records' = records
                 /\ batch' = batch \o NextCleaned]_vars

\* With chunk_size 2, a batch was aggregated and emptied and the next
\* record has started a new batch.
C22_Witness ==
  /\ pc = "reading"
  /\ chunk_size = MaxChunk
  /\ Len(records) = 1
  /\ Len(batch) = 1
  /\ line_num = MaxChunk + 1

\* ------------------------------------------------- nothing lost in batches
KeysOfRows(rows) == { KeyOf(rows[i]) : i \in 1..Len(rows) }

\* How many of the rows have the key, null keys included.
NumWithKey(rows, key) ==
  Cardinality({ i \in 1..Len(rows) : KeyOf(rows[i]) = key })

\* C23: when the streaming strategy has merged, every cleaned record of the
\* file is counted in exactly one partial aggregate (the counts of all
\* partial aggregates add up to the number of cleaned records), the final
\* aggregate has exactly one row per distinct (hour, endpoint) of the cleaned
\* records, and each row's count is the number of cleaned records with its
\* key.
C23_NoRecordLost ==
  Merged =>
    LET recs == CleanedOf(file)
    IN /\ SumSeq(Counts(ConcatRows(records))) = Len(recs)
       /\ KeysOfRows(final_df.rows) = KeysOfRows(recs)
       /\ Len(final_df.rows) = Cardinality(KeysOfRows(recs))
       /\ \A i \in 1..Len(final_df.rows) :
            final_df.rows[i].count
              = NumWithKey(recs, KeyOf(final_df.rows[i]))

\* ------------------------------------------------------ error_rate is 1
AllOnes(rows) ==
  \A i \in 1..Len(rows) : rows[i].error_rate = Frac(1, 1)

MaxShardFiles == 3

\* tasks[s][i]: "pending", "running" (the shard is open for reading),
\* "returned", or "open_failed" (returned without having opened the shard).
HasReturned(state) == state \in {"returned", "open_failed"}

Running(s) == { i \in 1..Len(tasks[s]) : tasks[s][i] = "running" }

\* Pool(num_workers) for multiprocessing; dask's threaded scheduler has one
\* thread per CPU.
PoolSize(s, n) == IF s = "multiprocessing" THEN Min(CpuCount, n) ELSE CpuCount

InitPool ==
  /\ fan_strategy = "multiprocessing"
  /\ fan_pc = "split"
  /\ shard_count \in 0..MaxShardFiles
  /\ chunk_num = 0
  /\ writer = 0
  /\ listed = 0
  /\ tasks = NoTasks
  /\ task_worker = NoTasks
  /\ opens = NoTasks
  /\ consumed = NoTasks
  /\ file = <<>>
  /\ chunk_size = 1
  /\ pc = "idle"
  /\ line_num = 0
  /\ batch = <<>>
  /\ records = <<>>
  /\ total_records = 0
  /\ filtered_records = 0
  /\ error_records = 0
  /\ final_df = EmptyFrame
  /\ stats = NoStats
  /\ exc = ""
  /\ ExportIdle
  /\ CleanIdle
  /\ MPIdle
  /\ BenchIdle
  /\ ETLIdle
  /\ WarehouseIdle

poolFrame ==
  << pandasVars, cleanVars, mpVars, benchVars, etlVars, warehouseVars >>

\* The partitioner opens the next shard file for writing (lines 462, 472).
OpenShard ==
  /\ fan_pc = "split"
  /\ writer = 0
  /\ chunk_num < shard_count
  /\ writer' = chunk_num + 1
  /\ UNCHANGED << fan_strategy, fan_pc, shard_count, chunk_num, listed,
                  tasks, task_worker, opens, consumed, poolFrame >>

\* writelines and the end of the with block: the shard is closed.  A write
\* error closes it too; the blanket except then returns an empty list
\* (lines 479-481).
CloseShard ==
  /\ fan_pc = "split"
  /\ writer # 0
  /\ writer' = 0
  /\ \E write_fails \in BOOLEAN :
       IF write_fails
         THEN /\ fan_pc' = "split_returned"
              /\ listed' = 0
              /\ UNCHANGED chunk_num
         ELSE /\ chunk_num' = chunk_num + 1
              /\ UNCHANGED << fan_pc, listed >>
  /\ UNCHANGED << fan_strategy, shard_count, tasks, task_worker, opens,
                  consumed, poolFrame >>

\* The input is exhausted: the partitioner returns the paths it wrote.
SplitReturns ==
  /\ fan_pc = "split"
  /\ writer = 0
  /\ chunk_num = shard_count
  /\ fan_pc' = "split_returned"
  /\ listed' = chunk_num
  /\ UNCHANGED << fan_strategy, shard_count, chunk_num, writer, tasks,
                  task_worker, opens, consumed, poolFrame >>

\* The parent creates the pool and submits one task per listed shard
\* (pool.map, dd.compute).  Pool(0) raises ValueError, which ends the
\* multiprocessing strategy.
StartMap ==
  /\ fan_pc = "split_returned"
  /\ IF fan_strategy = "multiprocessing" /\ listed = 0
       THEN /\ fan_strategy' = "polars"
            /\ fan_pc' = "none"
            /\ UNCHANGED << tasks, task_worker, opens >>
       ELSE /\ fan_pc' = "map"
            /\ tasks' = [tasks EXCEPT
                           ![fan_strategy] = [i \in 1..listed |-> "pending"]]
            /\ task_worker' = [task_worker EXCEPT
                                 ![fan_strategy] = [i \in 1..listed |-> 0]]
            /\ opens' = [opens EXCEPT
                           ![fan_strategy] = [i \in 1..listed |-> 0]]
            /\ UNCHANGED fan_strategy
  /\ UNCHANGED << shard_count, chunk_num, writer, listed, consumed,
                  poolFrame >>

\* An idle worker takes a pending task and opens its shard for reading
\* (line 491); open may fail, and the task then returns an error result.
WorkerOpen ==
  \E s \in FanOut, i \in 1..MaxShardFiles, open_fails \in BOOLEAN :
    /\ i \in 1..Len(tasks[s])
    /\ tasks[s][i] = "pending"
    /\ \E w \in 1..PoolSize(s, Len(tasks[s])) :
         /\ \A j \in Running(s) : task_worker[s][j] # w
         /\ IF open_fails
              THEN /\ tasks' = [tasks EXCEPT ![s][i] = "open_failed"]
                   /\ UNCHANGED << task_worker, opens >>
              ELSE /\ tasks' = [tasks EXCEPT ![s][i] = "running"]
                   /\ task_worker' = [task_worker EXCEPT ![s][i] = w]
                   /\ opens' = [opens EXCEPT ![s][i] = @ + 1]
    /\ UNCHANGED << fan_strategy, fan_pc, shard_count, chunk_num, writer,
                    listed, consumed, poolFrame >>

\* The worker has read its shard, closes it and returns its result; it is
\* free for the next task.
WorkerReturn ==
  \E s \in FanOut, i \in 1..MaxShardFiles :
    /\ i \in 1..Len(tasks[s])
    /\ tasks[s][i] = "running"
    /\ tasks' = [tasks EXCEPT ![s][i] = "returned"]
    /\ task_worker' = [task_worker EXCEPT ![s][i] = 0]
    /\ UNCHANGED << fan_strategy, fan_pc, shard_count, chunk_num, writer,
                    listed, opens, consumed, poolFrame >>

NextStrategy(s) == IF s = "multiprocessing" THEN "polars" ELSE "report"

\* What the parent's 'for result in results' loop consumes: the result of
\* every task that has one, in list order.
ResultsOf(states) ==
  SelectSeq([i \in 1..Len(states) |-> i], LAMBDA i : HasReturned(states[i]))

\* A map that hands the parent whatever results exist once one task has
\* returned.
MapReturns_FirstResult ==
  /\ fan_pc = "map"
  /\ \/ tasks[fan_strategy] = <<>>
     \/ \E i \in 1..Len(tasks[fan_strategy]) :
          HasReturned(tasks[fan_strategy][i])
  /\ consumed' =
       [consumed EXCEPT ![fan_strategy] = ResultsOf(tasks[fan_strategy])]
  /\ fan_strategy' = NextStrategy(fan_strategy)
  /\ fan_pc' = "none"
  /\ UNCHANGED << shard_count, chunk_num, writer, listed, tasks,
                  task_worker, opens, poolFrame >>

\* A map that returns once every task has been started.
MapReturns_NoJoin ==
  /\ fan_pc = "map"
  /\ \A i \in 1..Len(tasks[fan_strategy]) :
       tasks[fan_strategy][i] # "pending"
  /\ consumed' =
       [consumed EXCEPT
          ![fan_strategy] = [i \in 1..Len(tasks[fan_strategy]) |-> i]]
  /\ fan_strategy' = NextStrategy(fan_strategy)
  /\ fan_pc' = "none"
  /\ UNCHANGED << shard_count, chunk_num, writer, listed, tasks,
                  task_worker, opens, poolFrame >>

\* pool.map / dd.compute return when every task has returned; the parent
\* consumes the results, merges, exports and returns (lines 171-225,
\* 337-387).
MapReturns ==
  /\ fan_pc = "map"
  /\ \A i \in 1..Len(tasks[fan_strategy]) :
       HasReturned(tasks[fan_strategy][i])
  /\ consumed' =
       [consumed EXCEPT ![fan_strategy] = ResultsOf(tasks[fan_strategy])]
  /\ fan_strategy' = NextStrategy(fan_strategy)
  /\ fan_pc' = "none"
  /\ UNCHANGED << shard_count, chunk_num, writer, listed, tasks,
                  task_worker, opens, poolFrame >>

\* process_with_polars returns, and process_with_dask is called: without
\* dask it returns 'skipped' at once, with it the file is split again.
Polars ==
  /\ fan_strategy = "polars"
  /\ \E has_dask \in BOOLEAN :
       IF has_dask
         THEN /\ fan_strategy' = "dask"
              /\ fan_pc' = "split"
              /\ chunk_num' = 0
              /\ listed' = 0
         ELSE /\ fan_strategy' = "report"
              /\ UNCHANGED << fan_pc, chunk_num, listed >>
  /\ UNCHANGED << shard_count, writer, tasks, task_worker, opens, consumed,
                  poolFrame >>

NextPool ==
  \/ OpenShard
  \/ CloseShard
  \/ SplitReturns
  \/ StartMap
  \/ WorkerOpen
  \/ WorkerReturn
  \/ MapReturns
  \/ Polars

SpecPool == InitPool /\ [][NextPool]_vars

\* C24: the parent consumes results only after every shard's task has
\* returned: once a fan-out strategy has consumed its results no task of it
\* is pending or running, and it consumed exactly one result per shard, in
\* shard order.
C24_FanOutBarrier ==
  /\ \A s \in FanOut :
       consumed[s] # <<>> =>
         /\ \A i \in 1..Len(tasks[s]) : HasReturned(tasks[s][i])
         /\ consumed[s] = [i \in 1..Len(tasks[s]) |-> i]
  /\ \A s \in FanOut :
       (\E i \in 1..Len(tasks[s]) : ~HasReturned(tasks[s][i])) =>
         /\ fan_strategy = s
         /\ fan_pc = "map"
         /\ consumed[s] = <<>>

\* Both strategies have consumed the results of all shards, one of them
\* the error result of a task whose open failed.
C24_Witness ==
  /\ fan_strategy = "report"
  /\ \A s \in FanOut :
       /\ Len(consumed[s]) = MaxShardFiles
       /\ \E i, j \in 1..Len(tasks[s]) :
            tasks[s][i] = "returned" /\ tasks[s][j] = "open_failed"

Readers(i) ==
  { s \in FanOut : i \in 1..Len(tasks[s]) /\ tasks[s][i] = "running" }

\* C25: no shard file is open for writing while any shard is open for
\* reading; a shard is open for reading only when the partitioner of that
\* strategy has written and closed every shard and returned; within one
\* strategy a shard is opened by at most one worker, and by exactly one
\* unless its open failed; and the dask strategy (its second partitioning
\* included) runs only when every multiprocessing task has returned.
C25_NoWriteWhileRead ==
  /\ \A i \in 1..MaxShardFiles :
       Readers(i) # {} =>
         /\ writer = 0
         /\ fan_pc = "map"
         /\ Readers(i) = {fan_strategy}
         /\ chunk_num = shard_count
  /\ \A s \in FanOut : \A i \in 1..Len(tasks[s]) :
       /\ opens[s][i] <= 1
       /\ tasks[s][i] \in {"running", "returned"} <=> opens[s][i] = 1
  /\ fan_strategy = "dask" =>
       \A i \in 1..Len(tasks["multiprocessing"]) :
         HasReturned(tasks["multiprocessing"][i])

\* The dask strategy is writing a shard again that a multiprocessing worker
\* has read and closed.
C25_Witness ==
  /\ fan_strategy = "dask"
  /\ writer # 0
  /\ writer \in 1..Len(tasks["multiprocessing"])
  /\ tasks["multiprocessing"][writer] = "returned"
  /\ opens["multiprocessing"][writer] = 1

\* ------------------------------------------------ one strategy at a time
HasEntry(s) == s \in DOMAIN bench_results

\* C26: the strategies are invoked one at a time in the order
\* pandas_streaming, multiprocessing, polars, dask: each at most once, and
\* only when every strategy before it has its entry (it returned or raised)
\* and none after it has been invoked; the report is written only when all
\* four have an entry, is written by every run that returns after the four
\* strategies, and once written is not written again.
C26_SequentialStrategies ==
  /\ [](/\ \A k \in 1..Len(StrategyOrder) :
             /\ calls[StrategyOrder[k]] <= 1
             /\ HasEntry(StrategyOrder[k]) <=> calls[StrategyOrder[k]] = 1
             /\ calls[StrategyOrder[k]] = 1 =>
                  \A j \in 1..(k - 1) : HasEntry(StrategyOrder[j])
        /\ report.written => \A s \in Strategies : HasEntry(s)
        /\ (bench_pc = "returned" /\ input_exists) => report.written)
  /\ [][/\ Cardinality({ s \in Strategies : calls'[s] # calls[s] }) <= 1
        /\ \A k \in 1..Len(StrategyOrder) :
             calls'[StrategyOrder[k]] # calls[StrategyOrder[k]] =>
               /\ bench_pc = StrategyOrder[k]
               /\ \A j \in 1..(k - 1) : HasEntry(StrategyOrder[j])
               /\ \A j \in (k + 1)..Len(StrategyOrder) :
                    calls[StrategyOrder[j]] = 0
        /\ report.written => report' = report]_vars

\* The report has been written after four strategies of which the second
\* raised and the third was skipped.
C26_Witness ==
  /\ bench_pc = "returned"
  /\ report.written
  /\ \A s \in Strategies : calls[s] = 1
  /\ bench_results["multiprocessing"].status = "error"
  /\ bench_results["polars"].status = "skipped"

\* ------------------------------------------------------ the phase order
\* The method is one thread of straight-line code over a finite file: it
\* keeps taking steps until it returns or raises.
\* Its runs are followed to their end for the files of at most two lines
\* that are a malformed line, a line that raises, a record that aggregates
\* or one whose batch the aggregator drops.
PhaseLines ==
  { MalformedLine, ScalarLine,
    Obj("500", "2025-01-01T10:15:00Z", "/a", "100"),
    Obj("500", "2025-01-01T10:15:00Z", "/a", "abc") }

PhaseFiles ==
  {<<>>} \cup { << a >> : a \in PhaseLines }
         \cup { << a, b >> : a \in PhaseLines, b \in PhaseLines }

InitLive ==
  /\ file \in PhaseFiles
  /\ chunk_size \in 1..MaxChunk
  /\ pc = "idle"
  /\ line_num = 0
  /\ batch = <<>>
  /\ records = <<>>
  /\ total_records = 0
  /\ filtered_records = 0
  /\ error_records = 0
  /\ final_df = EmptyFrame
  /\ stats = NoStats
  /\ exc = ""
  /\ HAS_PYARROW \in BOOLEAN
  /\ elapsed = 0
  /\ artifact = NoArtifact
  /\ CleanIdle
  /\ MPIdle
  /\ BenchIdle
  /\ ETLIdle
  /\ WarehouseIdle
  /\ PoolIdle

SpecLive == InitLive /\ [][Next]_vars /\ WF_vars(Next)

\* The phases that may follow a phase in one step.
PhasesAfter(phase) ==
  CASE phase = "idle" -> {"reading"}
    [] phase = "reading" -> {"reading", "merging", "failed"}
    [] phase = "merging" -> {"exporting", "failed"}
    [] phase = "exporting" -> {"done", "failed"}
    [] OTHER -> {}

\* C27: the streaming strategy moves through idle, reading, merging,
\* exporting, done in that order; merging starts only at end-of-stream with
\* the last batch aggregated, exporting only after merging, and the RunStats
\* exists exactly in done, reached from exporting; done and failed are
\* terminal, failed carries the exception and no RunStats, and every run
\* eventually is in done or failed.
C27_PhaseOrder ==
  /\ [][/\ pc' \in PhasesAfter(pc)
        /\ pc' = "merging" =>
             /\ line_num = Len(file)
             /\ records' =
                  IF batch # <<>>
                    THEN Append(records, _aggregate_by_hour_endpoint(batch))
                    ELSE records
        /\ pc' = "exporting" => pc = "merging"
        /\ pc' = "done" => pc = "exporting"]_vars
  /\ [](/\ stats # NoStats <=> pc = "done"
        /\ pc = "failed" <=> exc # "")
  /\ <>(pc \in {"done", "failed"})

\* A run that flushed a last, partially filled batch and returned its stats.
C27_Witness ==
  /\ pc = "done"
  /\ stats # NoStats
  /\ batch # <<>>
  /\ Len(records) = 1
  /\ line_num = Len(file)

\* ------------------------------------------------- strategy equivalence
\* process_with_pandas_streaming run to its end on a file: the read loop,
\* the last batch and the merge, as ReadLine, EndOfStream and Merge do them
\* step by step.
RECURSIVE StreamLoop(_, _, _)
StreamLoop(st, lines, cs) ==
  IF lines = <<>> \/ st.exc # "" THEN st
  ELSE StreamLoop(PandasLine(st, Head(lines), cs), Tail(lines), cs)

StreamLocals ==
  [total_records |-> 0, filtered_records |-> 0, error_records |-> 0,
   batch |-> <<>>, records |-> <<>>, exc |-> ""]

pandas_streaming(lines, cs) ==
  LET read == StreamLoop(StreamLocals, lines, cs)
      st == LastBatch(read)
      merged == Consolidate(st.records)
  IN [exc |-> IF read.exc # "" THEN read.exc ELSE merged.exc,
      total_records |-> st.total_records,
      filtered_records |-> st.filtered_records,
      error_records |-> st.error_records,
      final_df |-> merged.frame]

\* The multiprocessing strategy has ended, the partitioner wrote every
\* shard, and no worker returned an error.
NoWorkerFailed ==
  /\ pc \in {"done", "failed"}
  /\ split_exc = ""
  /\ exc # "PermissionError"
  /\ \A i \in 1..Len(results) : results[i].status = "success"

\* C29: on a file on which no worker fails, the multiprocessing strategy
\* returns, and for every chunk_size the streaming strategy reaches its
\* export too, with the same total_records, filtered_records and
\* error_records and a final aggregate with the same keys and the same count
\* per key.
C29_StrategyEquivalence ==
  NoWorkerFailed =>
    \A cs \in 1..MaxChunk :
      LET single == pandas_streaming(file, cs)
      IN /\ pc = "done"
         /\ single.exc = ""
         /\ single.total_records = total_records
         /\ single.filtered_records = filtered_records
         /\ single.error_records = error_records
         /\ KeysOfRows(single.final_df.rows) = KeysOfRows(final_df.rows)
         /\ \A key \in Keys :
              CountOf(single.final_df, key) = CountOf(final_df, key)
====
